---------------------------- MODULE Spec2Model ----------------------------
(***************************************************************************)
(* Constellation Overwatch: the durable event distribution subsystem.      *)
(*                                                                         *)
(* The model covers the embedded NATS JetStream bootstrap                  *)
(* (pkg/services/embedded-nats), the four pull workers and their manager   *)
(* (pkg/services/workers) and the process's shutdown sequence (main).      *)
(* The broker itself is the nats-server library: its behaviour is modelled *)
(* as JetStream behaves under the stream and consumer configuration the    *)
(* code hands to it (retention, discard policy, duplicate window,          *)
(* MaxDeliver, explicit acknowledgment).                                   *)
(***************************************************************************)
EXTENDS Integers, Sequences, FiniteSets, TLC

(***************************************************************************)
(* Bounds of the model.                                                    *)
(***************************************************************************)
\* PublishWithDedup calls in one behaviour.
MaxPublishes == 2
\* Stand-ins for StreamConfig.MaxMsgs, the number of messages a stream holds
\* before its discard policy applies: LargeMaxMsgs for the two larger
\* streams (entities 100000, events 50000), SmallMaxMsgs for the two smaller
\* ones (telemetry 25000, commands 10000).
LargeMaxMsgs == 2
SmallMaxMsgs == 1
\* Stand-in for the batch size of sub.Fetch(10, ...).
FetchBatch == 2

(***************************************************************************)
(* pkg/shared/subjects.go: subjects, streams, consumers.  A subject is the *)
(* sequence of its dot-separated tokens.                                   *)
(***************************************************************************)
SubjectEntitiesAll == <<"constellation", "entities", ">">>
SubjectEventsAll == <<"constellation", "events", ">">>
SubjectTelemetryAll == <<"constellation", "telemetry", ">">>
SubjectCommandsAll == <<"constellation", "commands", ">">>

\* EntityCreatedSubject(orgID) and its three siblings: fmt.Sprintf of
\* "constellation.entities.%s.created", ".updated", ".deleted", ".status".
EntityCreatedSubject(orgID) == <<"constellation", "entities", orgID, "created">>
EntityUpdatedSubject(orgID) == <<"constellation", "entities", orgID, "updated">>
EntityDeletedSubject(orgID) == <<"constellation", "entities", orgID, "deleted">>
EntityStatusSubject(orgID) == <<"constellation", "entities", orgID, "status">>

\* The event types of the entity service.
EventTypeCreated == "created"
EventTypeUpdated == "updated"
EventTypeDeleted == "deleted"
EventTypeStatus == "status_changed"

EntityEventTypes ==
    {EventTypeCreated, EventTypeUpdated, EventTypeDeleted, EventTypeStatus}

\* The subject the README documents for an entity event of type eventType.
DocumentedEntitySubject(orgID, eventType) ==
    CASE eventType = EventTypeCreated -> EntityCreatedSubject(orgID)
      [] eventType = EventTypeUpdated -> EntityUpdatedSubject(orgID)
      [] eventType = EventTypeDeleted -> EntityDeletedSubject(orgID)
      [] eventType = EventTypeStatus -> EntityStatusSubject(orgID)

StreamEntities == "CONSTELLATION_ENTITIES"
StreamEvents == "CONSTELLATION_EVENTS"
StreamTelemetry == "CONSTELLATION_TELEMETRY"
StreamCommands == "CONSTELLATION_COMMANDS"

StreamNames == {StreamEntities, StreamEvents, StreamTelemetry, StreamCommands}

\* NATS subject matching: "*" matches one token, ">" one or more trailing
\* tokens.
RECURSIVE SubjectMatches(_, _)
SubjectMatches(filter, subject) ==
    IF filter = <<>> THEN subject = <<>>
    ELSE IF Head(filter) = ">" THEN Len(filter) = 1 /\ Len(subject) >= 1
    ELSE IF subject = <<>> THEN FALSE
    ELSE /\ Head(filter) \in {"*", Head(subject)}
         /\ SubjectMatches(Tail(filter), Tail(subject))


(***************************************************************************)
(* embedded-nats: CreateConstellationStreams' four stream definitions.     *)
(***************************************************************************)
\* A plausible slip: the events stream is declared on every constellation
\* subject.
SubjectsOverlapping(s) ==
    CASE s = StreamEntities -> SubjectEntitiesAll
      [] s = StreamEvents -> <<"constellation", ">">>
      [] s = StreamTelemetry -> SubjectTelemetryAll
      [] s = StreamCommands -> SubjectCommandsAll

Subjects(s) ==
    CASE s = StreamEntities -> SubjectEntitiesAll
      [] s = StreamEvents -> SubjectEventsAll
      [] s = StreamTelemetry -> SubjectTelemetryAll
      [] s = StreamCommands -> SubjectCommandsAll

Retention(s) ==
    CASE s = StreamEntities -> "LimitsPolicy"
      [] s = StreamEvents -> "WorkQueuePolicy"
      [] s = StreamTelemetry -> "InterestPolicy"
      [] s = StreamCommands -> "WorkQueuePolicy"

\* A plausible slip: the Discard field left at its default, DiscardOld.
DiscardOldEverywhere(s) == "DiscardOld"

\* A plausible slip: every stream declared with DiscardNew.
DiscardNewEverywhere(s) == "DiscardNew"

DiscardPolicy(s) ==
    IF s = StreamCommands THEN "DiscardNew" ELSE "DiscardOld"

MaxMsgs(s) ==
    IF s \in {StreamEntities, StreamEvents} THEN LargeMaxMsgs ELSE SmallMaxMsgs

\* The StreamConfig CreateConstellationStreams hands to AddStream for stream
\* s, in the fields the model follows.
Definition(s) ==
    [Name |-> s, Subjects |-> Subjects(s), Retention |-> Retention(s),
     MaxMsgs |-> MaxMsgs(s), DiscardPolicy |-> DiscardPolicy(s)]

\* CreateDurableConsumer's ConsumerConfig.
MaxDeliver == 3
MaxAckPending == 1000

\* initNATS' consumers list: the durable consumer of each stream.
ConsumerEntityProcessor == "entity-processor"
ConsumerEventProcessor == "event-processor"
ConsumerCommandProcessor == "command-processor"
ConsumerTelemetryProcessor == "telemetry-processor"

ConsumerOf(s) ==
    CASE s = StreamEntities -> ConsumerEntityProcessor
      [] s = StreamCommands -> ConsumerCommandProcessor
      [] s = StreamEvents -> ConsumerEventProcessor
      [] s = StreamTelemetry -> ConsumerTelemetryProcessor

\* The ConsumerConfig CreateDurableConsumer builds.
ConsumerConfig(consumerName, filterSubject) ==
    [Durable |-> consumerName, FilterSubject |-> filterSubject,
     AckPolicy |-> "AckExplicitPolicy", MaxDeliver |-> MaxDeliver,
     MaxAckPending |-> MaxAckPending]

\* The durable consumer initNATS declares on stream s.
Consumer(s) == ConsumerConfig(ConsumerOf(s), Subjects(s))

\* What StreamInfo and ConsumerInfo answer for a name the broker does not
\* have (ErrStreamNotFound, ErrConsumerNotFound).
NotFound == [Err |-> "not found"]

\* No declaration call has been made.
NoCall == [op |-> "none"]

\* The process has not been restarted.
NoRestart == [happened |-> FALSE]

\* No HTTP request has been served.
NoRequest == [path |-> "none"]

\* The client requests that change an entity.  A client that repeats its
\* request (after a timeout, say) runs the same operation again.
Requests == {"req1", "req2"}

\* No call of the entity service was made for the request.
NoOp == [op |-> "none"]

(***************************************************************************)
(* workers: NewManager's worker list, in its order, and what each worker   *)
(* is bound to (NewTelemetryWorker, NewEntityWorker, NewEventWorker,       *)
(* NewCommandWorker).                                                      *)
(***************************************************************************)
workers == <<"TelemetryWorker", "EntityWorker", "EventWorker", "CommandWorker">>

WorkerNames == {workers[i] : i \in 1..Len(workers)}

WorkerStream(w) ==
    CASE w = "TelemetryWorker" -> StreamTelemetry
      [] w = "EntityWorker" -> StreamEntities
      [] w = "EventWorker" -> StreamEvents
      [] w = "CommandWorker" -> StreamCommands

(***************************************************************************)
(* Inputs.                                                                 *)
(***************************************************************************)
\* Subjects a caller publishes on: one per domain, and one that no stream
\* captures (constellation.system.health, SubjectSystemHealth).
PublishSubjects ==
    { <<"constellation", "entities", "org1", "created">>,
      <<"constellation", "events", "org1", "alert">>,
      <<"constellation", "telemetry", "org1", "e1">>,
      <<"constellation", "commands", "org1", "broadcast">>,
      <<"constellation", "system", "health">> }

\* The domains of the subject hierarchy (subjects.go: constellation.<domain>...).
Domains == {"entities", "events", "telemetry", "commands"}

\* Concrete subjects (no wildcard) of up to four tokens.
SubjectTokens == Domains \cup {"constellation", "system", "org1", "e1"}

ConcreteSubjects ==
    UNION {[1..n -> SubjectTokens] : n \in 1..4}

\* The streams whose subject filter captures `subject`.
Capturing(subject) == {s \in StreamNames : SubjectMatches(Subjects(s), subject)}

\* No concrete subject is captured by two streams, and each domain's
\* subjects are captured by one.
FiltersDisjoint ==
    /\ \A subject \in ConcreteSubjects : Cardinality(Capturing(subject)) <= 1
    /\ \A d \in Domains : Cardinality(Capturing(<<"constellation", d, "org1">>)) = 1

\* Values of the Nats-Msg-Id header.
MsgIDs == {"id1", "id2"}

\* Payload bytes: a JSON object, and bytes that do not decode into a map.
Payloads == {"json_object", "garbage"}

\* json.Unmarshal(msg.Data, &data) with data a map[string]interface{}:
\* TRUE when err == nil.
JsonUnmarshalOk(data) == data = "json_object"

\* The sequence numbers of a stream: of the message an earlier run of the
\* process may have left in it, and of the messages published since.
Seqs == 1..(MaxPublishes + 1)

VARIABLES
    \* the broker (nats-server, JetStream)
    stream,      \* stream name -> the stored messages, oldest first
    lastSeq,     \* stream name -> the last sequence number assigned
    dedup,       \* stream name -> the duplicate window: [id, seq] of the
                 \* Nats-Msg-Ids recorded and the messages that recorded them
    numDelivered,\* stream name -> sequence number -> deliveries to the durable consumer
    ackPending,  \* stream name -> delivered sequence numbers whose AckWait runs
    ackFloor,    \* stream name -> sequence numbers the consumer acknowledged
    server,      \* en.server, the broker process: "nil" (none created) |
                 \* "running" | "stopped"
    nc,          \* en.nc, the shared client connection: "nil" (none opened) |
                 \* "connected" | "disconnected" (lost, reconnecting) | "closed"
    \* the workers
    wpc,         \* worker -> position of its goroutine
    sub,         \* worker -> w.sub: "nil" | "open" | "drained"
    msgs,        \* worker -> msgs, the batch Fetch returned
    err,         \* worker -> err, the error Fetch returned
    handled,     \* worker -> messages of the batch whose handler returned
    ackTried,    \* worker -> messages of the batch msg.Ack() was called on
    \* the manager and main
    ctxDone,     \* m.ctx is cancelled
    mainpc,      \* position of main / Manager.Stop
    stopCalled,  \* workers whose Stop() Manager.Stop has called
    published,   \* number of PublishWithDedup calls so far
    call,        \* <<subject, msgID, ack>> when the last step was a call of
                 \* PublishWithDedup (ack: the PubAck the call discards,
                 \* "stored" | "duplicate" | "none"), <<>> otherwise
    out,         \* what the last step reported: the error or data line it logged,
                 \* or the value the call returned ("none": neither)
    \* the declarations and the entity service
    streamCfg,   \* stream name -> the broker's configuration of the stream,
                 \* NotFound when the broker has no such stream
    streams,     \* en.streams: stream name -> the StreamConfig AddStream
                 \* recorded, NotFound before
    consumerCfg, \* stream name -> the broker's configuration of the stream's
                 \* durable consumer, NotFound when there is none
    clock,       \* time.Now().UnixNano() as the last publishEntityEvent read it
    produced,    \* the events publishEntityEvent published: the request, the
                 \* entity, the envelope, the Nats-Msg-Id and the subject
    decl,        \* the last call of AddStream or CreateDurableConsumer: op (its
                 \* name), arg (its arguments) and info (what its StreamInfo or
                 \* ConsumerInfo lookup found); NoCall before the first
    restarted,   \* what the last restart of the process found in the store
                 \* directory (NoRestart before the first)
    \* the HTTP API
    http,        \* the last request the HTTP server answered: the request, the
                 \* status of the response, the handler and the service
                 \* operation that ran for it, and the event whose publication
                 \* it left to a goroutine (NoRequest before the first)
    \* the entity service
    db,          \* the rows of table entities: [EntityID, OrgID, Status]
    ops,         \* request -> the call of the entity service it made: the
                 \* operation and its arguments, the position inside it, the
                 \* row GetEntity scanned, the entities and the error returned
    goroutines   \* the goroutines `go s.publishEntityEvent(entity, eventType)`
                 \* started: the request, the entity, the event type and how
                 \* far it is ("spawned", then "skipped" | "published" | "failed")

brokerVars == <<stream, lastSeq, dedup, numDelivered, ackPending, ackFloor>>
workerVars == <<wpc, sub, msgs, err, handled, ackTried>>
envVars == <<streamCfg, streams, consumerCfg, clock, produced, decl, restarted, http,
             db, ops, goroutines>>
vars == <<stream, lastSeq, dedup, numDelivered, ackPending, ackFloor, server, nc,
          wpc, sub, msgs, err, handled, ackTried, ctxDone, mainpc, stopCalled,
          published, call, out, streamCfg, streams, consumerCfg, clock, produced,
          decl, restarted, http, db, ops, goroutines>>

\* The state after initNATS and Manager.Start returned: the broker runs, the
\* client is connected, the four streams and consumers exist and are empty,
\* and the four worker goroutines have been spawned.  In InitWith(running)
\* the goroutines of the workers outside `running` have already ended with a
\* js.PullSubscribe error (PullSubscribeFails).  InitOn(running, provisioned)
\* is that state on a broker that has the durable consumers of the streams
\* in `provisioned` only.
InitOn(running, provisioned) ==
    /\ stream = [s \in StreamNames |-> <<>>]
    /\ lastSeq = [s \in StreamNames |-> 0]
    /\ dedup = [s \in StreamNames |-> {}]
    /\ numDelivered = [s \in StreamNames |-> [n \in Seqs |-> 0]]
    /\ ackPending = [s \in StreamNames |-> {}]
    /\ ackFloor = [s \in StreamNames |-> {}]
    /\ server = "running"
    /\ nc = "connected"
    /\ wpc = [w \in WorkerNames |-> IF w \in running THEN "spawned" ELSE "failed"]
    /\ sub = [w \in WorkerNames |-> "nil"]
    /\ msgs = [w \in WorkerNames |-> <<>>]
    /\ err = [w \in WorkerNames |-> "nil"]
    /\ handled = [w \in WorkerNames |-> {}]
    /\ ackTried = [w \in WorkerNames |-> {}]
    /\ ctxDone = FALSE
    /\ mainpc = "serving"
    /\ stopCalled = {}
    /\ published = 0
    /\ call = <<>>
    /\ out = "none"
    /\ streamCfg = [s \in StreamNames |-> Definition(s)]
    /\ streams = [s \in StreamNames |-> Definition(s)]
    /\ consumerCfg = [s \in StreamNames |->
                         IF s \in provisioned THEN Consumer(s) ELSE NotFound]
    /\ clock = 0
    /\ produced = {}
    /\ restarted = NoRestart
    /\ http = NoRequest
    /\ db = {}
    /\ ops = [r \in Requests |-> NoOp]
    /\ goroutines = {}
    /\ decl = NoCall

InitWith(running) == InitOn(running, StreamNames)

\* Workers share nothing but m.ctx and the connection: the traffic of a
\* stream and its worker is explored for one worker at a time.
Init == \E w \in WorkerNames : InitWith({w})

\* The process runs: main has not returned or called log.Fatal, and no
\* goroutine has panicked.
Alive == mainpc \notin {"exited", "crashed", "fatal"}

\* The stored messages of stream s without sequence numbers `gone`.
Without(s, gone) ==
    LET Keep(m) == m.seq \notin gone IN SelectSeq(stream[s], Keep)

(***************************************************************************)
(* The broker's side of a publish (JetStream, under the StreamConfig of    *)
(* CreateConstellationStreams).  id = "" stands for a message without a    *)
(* Nats-Msg-Id header.  Sets stream, lastSeq, dedup, ackPending and out    *)
(* (the error js.PublishMsg returns, "ret_nil" for nil).                   *)
(***************************************************************************)
StreamsOf(subject) == {s \in StreamNames : SubjectMatches(Subjects(s), subject)}

\* The duplicate window of stream s holds Nats-Msg-Id id.
InWindow(s, id) == \E e \in dedup[s] : e.id = id

Store(s, subject, data, id, evicted) ==
    LET n == lastSeq[s] + 1
        m == [seq |-> n, msgID |-> id, data |-> data, subject |-> subject]
    IN /\ stream' = [stream EXCEPT ![s] = Append(Without(s, evicted), m)]
       /\ lastSeq' = [lastSeq EXCEPT ![s] = n]
       /\ dedup' = IF id = "" THEN dedup
                   ELSE [dedup EXCEPT ![s] = @ \cup {[id |-> id, seq |-> n]}]
       /\ ackPending' = [ackPending EXCEPT ![s] = @ \ evicted]
       /\ call' = <<subject, id, "stored">>
       /\ out' = "ret_nil"

\* A plausible slip: the publish is not awaited (nc.PublishMsg), nil is
\* returned whatever becomes of the message.
RejectedSilently(subject, id) ==
    /\ call' = <<subject, id, "none">>
    /\ out' = "ret_nil"
    /\ UNCHANGED <<stream, lastSeq, dedup, ackPending>>

Rejected(subject, id) ==
    /\ call' = <<subject, id, "none">>
    /\ out' = "ret_error"
    /\ UNCHANGED <<stream, lastSeq, dedup, ackPending>>

PublishMsg(subject, data, id) ==
    IF nc # "connected" \/ StreamsOf(subject) = {}
    THEN Rejected(subject, id)          \* ErrConnectionClosed / no stream responds
    ELSE LET s == CHOOSE x \in StreamsOf(subject) : TRUE IN
         IF id # "" /\ InWindow(s, id)
         THEN /\ call' = <<subject, id, "duplicate">>
              /\ out' = "ret_nil"       \* PubAck{Duplicate: true}, err == nil
              /\ UNCHANGED <<stream, lastSeq, dedup, ackPending>>
         ELSE IF Len(stream[s]) < MaxMsgs(s)
         THEN Store(s, subject, data, id, {})
         ELSE IF DiscardPolicy(s) = "DiscardNew"
         THEN Rejected(subject, id)     \* maximum messages exceeded
         ELSE Store(s, subject, data, id, {Head(stream[s]).seq})

\* A plausible slip: the Nats-Msg-Id header is not set.
PublishWithoutMsgId(subject, data, msgID) ==
    /\ Alive
    /\ published < MaxPublishes
    /\ published' = published + 1
    /\ PublishMsg(subject, data, "")
    /\ UNCHANGED <<numDelivered, ackFloor, server, nc, workerVars, ctxDone, mainpc,
                   stopCalled>>

\* EmbeddedNATS.PublishWithDedup
PublishWithDedup(subject, data, msgID) ==
    /\ Alive
    /\ published < MaxPublishes
    /\ published' = published + 1
    /\ PublishMsg(subject, data, msgID)
    /\ UNCHANGED <<numDelivered, ackFloor, server, nc, workerVars, ctxDone, mainpc,
                   stopCalled>>

(***************************************************************************)
(* embedded-nats: the declaration of streams and consumers.  The broker    *)
(* keeps streams and consumers in its store directory: what one run of the *)
(* process declared is there when the next run declares again.             *)
(***************************************************************************)
\* A plausible slip of the broker's side: no update is accepted.
UpdateRefused(old, new) == FALSE

\* js.UpdateStream's answer: the broker accepts a configuration update that
\* leaves the retention policy alone or changes it between limits and
\* interest; it refuses a change to or from WorkQueuePolicy.
UpdateAccepted(old, new) ==
    \/ old.Retention = new.Retention
    \/ "WorkQueuePolicy" \notin {old.Retention, new.Retention}

\* A plausible slip: an existing stream is left as it is, as
\* CreateDurableConsumer leaves an existing consumer.
KeepExistingStream(config) ==
    /\ out' = "log_updated_stream"
    /\ streams' = [streams EXCEPT ![config.Name] = config]
    /\ UNCHANGED streamCfg

\* AddStream's branch for a stream that exists: js.UpdateStream(config).
UpdateStream(config) ==
    IF UpdateAccepted(streamCfg[config.Name], config)
    THEN /\ streamCfg' = [streamCfg EXCEPT ![config.Name] = config]
         /\ streams' = [streams EXCEPT ![config.Name] = config]
         /\ out' = "log_updated_stream"
    ELSE /\ out' = "err_update_stream"
         /\ UNCHANGED <<streamCfg, streams>>

\* EmbeddedNATS.AddStream.  StreamInfo finds the stream when the connection
\* is up and the broker has it; brokerAccepts tells whether the broker
\* creates a stream it does not have (it refuses when its storage limits are
\* exhausted).  The streams hold no messages while they are declared.
AddStream(streamConfig, brokerAccepts) ==
    LET name == streamConfig.Name
        info == IF nc = "connected" THEN streamCfg[name] ELSE NotFound
    IN /\ decl' = [op |-> "AddStream", arg |-> streamConfig, info |-> info]
       /\ IF nc = "nil"
          THEN /\ out' = "err_not_initialized"
               /\ UNCHANGED <<streamCfg, streams>>
          ELSE IF info # NotFound
          THEN UpdateStream(streamConfig)
          ELSE IF nc = "connected" /\ brokerAccepts
          THEN /\ streamCfg' = [streamCfg EXCEPT ![name] = streamConfig]
               /\ streams' = [streams EXCEPT ![name] = streamConfig]
               /\ out' = "log_created_stream"
          ELSE /\ out' = "err_add_stream"
               /\ UNCHANGED <<streamCfg, streams>>
       /\ call' = <<>>
       /\ UNCHANGED <<brokerVars, server, nc, workerVars, ctxDone, stopCalled,
                      published, consumerCfg, clock, produced, restarted,
                   http, db, ops, goroutines>>

\* A plausible slip: an existing consumer is given the new configuration.
ReplaceConsumer(old, new) == new

\* The consumer CreateDurableConsumer leaves behind when ConsumerInfo found
\* one: the one that was there.
ExistingConsumer(old, new) == old

\* EmbeddedNATS.CreateDurableConsumer.  js.AddConsumer needs the stream;
\* brokerAccepts tells whether the broker then creates the consumer.
CreateDurableConsumer(streamName, consumerName, filterSubject, brokerAccepts) ==
    LET config == ConsumerConfig(consumerName, filterSubject)
        info == IF nc = "connected" THEN consumerCfg[streamName] ELSE NotFound
    IN /\ consumerName = ConsumerOf(streamName)
       /\ decl' = [op |-> "CreateDurableConsumer",
                   arg |-> <<streamName, consumerName, filterSubject>>,
                   info |-> info]
       /\ IF info # NotFound
          THEN /\ consumerCfg' = [consumerCfg EXCEPT ![streamName] =
                                      ExistingConsumer(info, config)]
               /\ out' = "log_consumer_exists"
          ELSE IF /\ nc = "connected"
                  /\ streamCfg[streamName] # NotFound
                  /\ brokerAccepts
          THEN /\ consumerCfg' = [consumerCfg EXCEPT ![streamName] = config]
               /\ out' = "log_created_consumer"
          ELSE /\ out' = "err_create_consumer"
               /\ UNCHANGED consumerCfg
       /\ call' = <<>>
       /\ UNCHANGED <<brokerVars, server, nc, workerVars, ctxDone, stopCalled,
                      published, streamCfg, streams, clock, produced, restarted,
                   http, db, ops, goroutines>>

\* What a declaration call returned: nil after these lines were logged.
DeclaredOk ==
    {"log_updated_stream", "log_created_stream", "log_consumer_exists",
     "log_created_consumer"}

(***************************************************************************)
(* main and initNATS: the start of the process, from initNATS to the HTTP  *)
(* server.  Positions of main: "init_nats", "add_stream_1" ..              *)
(* "add_stream_4", "create_consumer_1" .. "create_consumer_4",             *)
(* "new_manager", "manager_start", "start_http", "serving"; "fatal" after  *)
(* log.Fatal.                                                              *)
(***************************************************************************)
\* The order of CreateConstellationStreams' streams and of initNATS'
\* consumers.
streamOrder == <<StreamEntities, StreamEvents, StreamTelemetry, StreamCommands>>
consumerOrder == <<StreamEntities, StreamCommands, StreamEvents, StreamTelemetry>>

AddStreamStep(i) == "add_stream_" \o ToString(i)
CreateConsumerStep(i) == "create_consumer_" \o ToString(i)

\* A plausible slip: the error of a declaration is logged and main goes on.
ContinueAfterError(ok, next) == next

\* if err != nil { return err } in the loops of CreateConstellationStreams
\* and initNATS, and log.Fatal in main.
AfterDeclaration(ok, next) == IF ok THEN next ELSE "fatal"

\* nats.Start(): server.NewServer, go ns.Start(), ns.ReadyForConnections,
\* en.connect().  Any failure is returned, and main ends with log.Fatal.
Start(result) ==
    /\ mainpc = "init_nats"
    /\ IF result = "started"
       THEN /\ server' = "running"
            /\ nc' = "connected"
            /\ mainpc' = AddStreamStep(1)
            /\ out' = "log_server_started"
       ELSE /\ mainpc' = "fatal"
            /\ out' = result
            /\ UNCHANGED <<server, nc>>
    /\ decl' = NoCall
    /\ call' = <<>>
    /\ UNCHANGED <<brokerVars, workerVars, ctxDone, stopCalled, published,
                   streamCfg, streams, consumerCfg, clock, produced, restarted,
                   http, db, ops, goroutines>>

\* One round of the loop of CreateConstellationStreams.
CreateConstellationStreams(i, brokerAccepts) ==
    /\ mainpc = AddStreamStep(i)
    /\ AddStream(Definition(streamOrder[i]), brokerAccepts)
    /\ mainpc' = AfterDeclaration(out' \in DeclaredOk,
                                  IF i < Len(streamOrder) THEN AddStreamStep(i + 1)
                                  ELSE CreateConsumerStep(1))

\* One round of initNATS' loop over consumers.
CreateConsumers(i, brokerAccepts) ==
    LET s == consumerOrder[i] IN
    /\ mainpc = CreateConsumerStep(i)
    /\ CreateDurableConsumer(s, ConsumerOf(s), Subjects(s), brokerAccepts)
    /\ mainpc' = AfterDeclaration(out' \in DeclaredOk,
                                  IF i < Len(consumerOrder)
                                  THEN CreateConsumerStep(i + 1)
                                  ELSE "new_manager")

\* workers.NewManager(nats): the connection and JetStream context are there.
NewManager ==
    /\ mainpc = "new_manager"
    /\ mainpc' = IF nc = "nil" THEN "fatal" ELSE "manager_start"
    /\ decl' = NoCall
    /\ call' = <<>>
    /\ out' = "none"
    /\ UNCHANGED <<brokerVars, server, nc, workerVars, ctxDone, stopCalled,
                   published, streamCfg, streams, consumerCfg, clock, produced, restarted,
                   http, db, ops, goroutines>>

\* Manager.Start: one goroutine per worker.
ManagerStart ==
    /\ mainpc = "manager_start"
    /\ wpc' = [w \in WorkerNames |-> "spawned"]
    /\ mainpc' = "start_http"
    /\ decl' = NoCall
    /\ call' = <<>>
    /\ out' = "log_started_workers"
    /\ UNCHANGED <<brokerVars, server, nc, sub, msgs, err, handled, ackTried,
                   ctxDone, stopCalled, published, streamCfg, streams,
                   consumerCfg, clock, produced, restarted,
                   http, db, ops, goroutines>>

\* main starts the HTTP server's goroutine: server.ListenAndServe().
ListenAndServe ==
    /\ mainpc = "start_http"
    /\ mainpc' = "serving"
    /\ decl' = NoCall
    /\ call' = <<>>
    /\ out' = "log_starting_api_server"
    /\ UNCHANGED <<brokerVars, server, nc, workerVars, ctxDone, stopCalled,
                   published, streamCfg, streams, consumerCfg, clock, produced, restarted,
                   http, db, ops, goroutines>>

(***************************************************************************)
(* api/services: the entity service's event publication.                   *)
(***************************************************************************)
\* The entities the service publishes about.
Entities == {[OrgID |-> "org1", EntityID |-> "e1"]}

\* fmt.Sprintf("%s-%s-%d", entity.EntityID, eventType, time.Now().UnixNano())
MsgIdOf(entity, eventType, now) ==
    entity.EntityID \o "-" \o eventType \o "-" \o ToString(now)

\* EntityService.publishEntityEvent, as CreateEntity, UpdateEntity,
\* DeleteEntity and UpdateEntityStatus start it for request `request`.  The
\* clock has advanced since the last call.  json.Marshal(event) yields a
\* JSON object.
publishEntityEvent(entity, eventType, request) ==
    LET event == [Type |-> eventType,
                  Subject |-> EntityCreatedSubject(entity.OrgID)]
        msgID == MsgIdOf(entity, eventType, clock + 1)
    IN /\ clock' = clock + 1
       /\ PublishWithDedup(event.Subject, "json_object", msgID)
       /\ produced' = produced \cup
              {[request |-> request, entity |-> entity, event |-> event,
                key |-> msgID, subject |-> call'[1]]}
       /\ UNCHANGED <<streamCfg, streams, consumerCfg, decl, restarted, http>>

(***************************************************************************)
(* The broker's timers.                                                    *)
(***************************************************************************)
\* StreamConfig.Duplicates: a Nats-Msg-Id leaves the duplicate window.
DuplicateWindowExpires(s, id) ==
    /\ Alive /\ server = "running"
    /\ InWindow(s, id)
    /\ dedup' = [dedup EXCEPT ![s] = {e \in @ : e.id # id}]
    /\ UNCHANGED envVars
    /\ call' = <<>>
    /\ out' = "none"
    /\ UNCHANGED <<stream, lastSeq, numDelivered, ackPending, ackFloor, server, nc,
                   workerVars, ctxDone, mainpc, stopCalled, published>>

\* StreamConfig.MaxAge: the oldest stored message expires.  On every stream
\* MaxAge is longer than DuplicateWindow: by then the message's Nats-Msg-Id
\* has left the duplicate window.
MaxAgeExpires(s) ==
    /\ Alive /\ server = "running"
    /\ stream[s] # <<>>
    /\ \A e \in dedup[s] : e.seq # Head(stream[s]).seq
    /\ stream' = [stream EXCEPT ![s] = Tail(@)]
    /\ ackPending' = [ackPending EXCEPT ![s] = @ \ {Head(stream[s]).seq}]
    /\ UNCHANGED envVars
    /\ call' = <<>>
    /\ out' = "none"
    /\ UNCHANGED <<lastSeq, dedup, numDelivered, ackFloor, server, nc,
                   workerVars, ctxDone, mainpc, stopCalled, published>>

\* ConsumerConfig.AckWait: a delivered message was not acknowledged in time.
AckWaitExpires(s, n) ==
    /\ Alive /\ server = "running"
    /\ n \in ackPending[s]
    /\ ackPending' = [ackPending EXCEPT ![s] = @ \ {n}]
    /\ UNCHANGED envVars
    /\ call' = <<>>
    /\ out' = "none"
    /\ UNCHANGED <<stream, lastSeq, dedup, numDelivered, ackFloor, server, nc,
                   workerVars, ctxDone, mainpc, stopCalled, published>>


(***************************************************************************)
(* The durable pull consumer of stream s (CreateDurableConsumer:           *)
(* AckExplicit, DeliverAll, MaxDeliver, MaxAckPending).                    *)
(***************************************************************************)
\* A plausible slip: MaxDeliver left at its default, unlimited.
MayDeliverUnlimited(count) == TRUE

\* ConsumerConfig.MaxDeliver: a message delivered `count` times may be
\* delivered once more.
MayDeliver(count) == count < MaxDeliver

\* A plausible slip: the consumer is created with a FilterSubject that no
\* message of the stream has.
DeliverableNone(s) == <<>>

\* The stored messages the consumer may deliver now, oldest first.
\* A plausible slip: the consumer forgets what was acknowledged.
DeliverableThoughAcknowledged(s) ==
    LET Due(m) == /\ m.seq \notin ackPending[s]
                  /\ MayDeliver(numDelivered[s][m.seq])
    IN SelectSeq(stream[s], Due)

Deliverable(s) ==
    LET Due(m) == /\ m.seq \notin ackFloor[s]
                  /\ m.seq \notin ackPending[s]
                  /\ MayDeliver(numDelivered[s][m.seq])
    IN SelectSeq(stream[s], Due)

SeqsOf(batch) == {batch[i].seq : i \in 1..Len(batch)}

(***************************************************************************)
(* BaseWorker.processMessages, one action per step of the goroutine that   *)
(* Manager.Start spawned for worker w.                                     *)
(*   "spawned"  before js.PullSubscribe                                    *)
(*   "top"      at the select of the for loop                              *)
(*   "fetching" inside sub.Fetch                                           *)
(*   "fetched"  Fetch returned msgs, err                                   *)
(*   "handler"  before handler(msg) of the next message of the batch       *)
(*   "ack"      before msg.Ack() of that message                           *)
(*   "stopped"  returned ctx.Err()        "failed"  returned an error      *)
(***************************************************************************)
\* The states of a worker's life: Created before js.PullSubscribe returned,
\* Running inside the loop, Stopped once processMessages has returned (the
\* goroutine of Manager.Start logs "Worker ... stopped" after either return).
Lifecycle(pc) ==
    CASE pc \in {"unstarted", "spawned"} -> "Created"
      [] pc \in {"top", "fetching", "fetched", "handler", "ack"} -> "Running"
      [] pc \in {"stopped", "failed", "panicked"} -> "Stopped"

\* js.PullSubscribe(..., nats.Bind(stream, consumer)) succeeds: w.sub = sub.
PullSubscribe(w) ==
    /\ Alive
    /\ wpc[w] = "spawned"
    /\ nc = "connected" /\ server = "running"
    /\ consumerCfg[WorkerStream(w)] # NotFound      \* nats.Bind(w.stream, w.consumer)
    /\ sub' = [sub EXCEPT ![w] = "open"]
    /\ wpc' = [wpc EXCEPT ![w] = "top"]
    /\ UNCHANGED envVars
    /\ call' = <<>>
    /\ out' = "none"
    /\ UNCHANGED <<brokerVars, server, nc, msgs, err, handled, ackTried, ctxDone, mainpc,
                   stopCalled, published>>

\* A plausible slip: the error of js.PullSubscribe is not looked at and the
\* loop is entered without a subscription.
PullSubscribeErrorIgnored(w) ==
    /\ Alive
    /\ wpc[w] = "spawned"
    /\ wpc' = [wpc EXCEPT ![w] = "top"]
    /\ UNCHANGED envVars
    /\ call' = <<>>
    /\ out' = "none"
    /\ UNCHANGED <<brokerVars, server, nc, sub, msgs, err, handled, ackTried, ctxDone,
                   mainpc, stopCalled, published>>

\* A plausible slip: the goroutines run in an errgroup, the first error
\* cancels the context of all.
CancelOnWorkerError == TRUE

\* The goroutine of Manager.Start only logs the error its worker's Start
\* returned: m.ctx is what it was.
AfterWorkerError == ctxDone

\* js.PullSubscribe returns an error: processMessages returns it, and the
\* goroutine of Manager.Start logs it and ends.
PullSubscribeFails(w) ==
    /\ Alive
    /\ wpc[w] = "spawned"
    /\ wpc' = [wpc EXCEPT ![w] = "failed"]
    /\ ctxDone' = AfterWorkerError
    /\ UNCHANGED envVars
    /\ call' = <<>>
    /\ out' = "log_worker_error"
    /\ UNCHANGED <<brokerVars, server, nc, sub, msgs, err, handled, ackTried,
                   mainpc, stopCalled, published>>

\* case <-ctx.Done(): return ctx.Err()
LoopDone(w) ==
    /\ Alive
    /\ wpc[w] = "top"
    /\ ctxDone
    /\ wpc' = [wpc EXCEPT ![w] = "stopped"]
    /\ UNCHANGED envVars
    /\ call' = <<>>
    /\ out' = "none"
    /\ UNCHANGED <<brokerVars, server, nc, sub, msgs, err, handled, ackTried, ctxDone,
                   mainpc, stopCalled, published>>

\* A plausible slip: the loop fetches without looking at ctx.Done().
LoopFetchIgnoringDone(w) ==
    /\ Alive
    /\ wpc[w] = "top"
    /\ wpc' = [wpc EXCEPT ![w] = "fetching"]
    /\ err' = [err EXCEPT ![w] = "nil"]
    /\ UNCHANGED envVars
    /\ call' = <<>>
    /\ out' = "none"
    /\ UNCHANGED <<brokerVars, server, nc, sub, msgs, handled, ackTried, ctxDone,
                   mainpc, stopCalled, published>>

\* A plausible slip: the loop looks at ctx.Done() only when the consumer has
\* nothing to deliver, so that a backlog is worked off before it returns.
LoopFetchWhileBacklog(w) ==
    /\ Alive
    /\ wpc[w] = "top"
    /\ ~ctxDone \/ Deliverable(WorkerStream(w)) # <<>>
    /\ wpc' = [wpc EXCEPT ![w] = "fetching"]
    /\ err' = [err EXCEPT ![w] = "nil"]
    /\ UNCHANGED envVars
    /\ call' = <<>>
    /\ out' = "none"
    /\ UNCHANGED <<brokerVars, server, nc, sub, msgs, handled, ackTried, ctxDone,
                   mainpc, stopCalled, published>>

\* default: the worker calls sub.Fetch(10, nats.MaxWait(2*time.Second)).
LoopFetch(w) ==
    /\ Alive
    /\ wpc[w] = "top"
    /\ ~ctxDone
    /\ wpc' = [wpc EXCEPT ![w] = "fetching"]
    /\ err' = [err EXCEPT ![w] = "nil"]
    /\ UNCHANGED envVars
    /\ call' = <<>>
    /\ out' = "none"
    /\ UNCHANGED <<brokerVars, server, nc, sub, msgs, handled, ackTried, ctxDone,
                   mainpc, stopCalled, published>>

\* Fetch returns the first k deliverable messages and err == nil.
FetchReturnsMsgs(w, k) ==
    LET s == WorkerStream(w)
        batch == SubSeq(Deliverable(s), 1, k)
    IN /\ Alive
       /\ wpc[w] = "fetching"
       /\ sub[w] = "open" /\ nc = "connected" /\ server = "running"
       /\ k <= Len(Deliverable(s))
       /\ Cardinality(ackPending[s]) + k <= MaxAckPending
       /\ msgs' = [msgs EXCEPT ![w] = batch]
       /\ err' = [err EXCEPT ![w] = "nil"]
       /\ numDelivered' = [numDelivered EXCEPT ![s] =
              [n \in Seqs |-> IF n \in SeqsOf(batch) THEN @[n] + 1 ELSE @[n]]]
       /\ ackPending' = [ackPending EXCEPT ![s] = @ \cup SeqsOf(batch)]
       /\ wpc' = [wpc EXCEPT ![w] = "fetched"]
       /\ UNCHANGED envVars
       /\ call' = <<>>
       /\ out' = "none"
       /\ UNCHANGED <<stream, lastSeq, dedup, ackFloor, server, nc, sub, handled,
                      ackTried, ctxDone, mainpc, stopCalled, published>>

\* Fetch returns no message and nats.ErrTimeout: MaxWait passed with nothing
\* to deliver.
FetchTimesOut(w) ==
    /\ Alive
    /\ wpc[w] = "fetching"
    /\ nc = "connected"
    /\ Deliverable(WorkerStream(w)) = <<>> \/ sub[w] # "open"
    /\ err' = [err EXCEPT ![w] = "ErrTimeout"]
    /\ wpc' = [wpc EXCEPT ![w] = "fetched"]
    /\ UNCHANGED envVars
    /\ call' = <<>>
    /\ out' = "none"
    /\ UNCHANGED <<brokerVars, server, nc, sub, msgs, handled, ackTried, ctxDone,
                   mainpc, stopCalled, published>>

\* Fetch returns no message and another error: a closed connection, a
\* drained subscription, a transient broker error.
FetchFails(w) ==
    /\ Alive
    /\ wpc[w] = "fetching"
    /\ err' = [err EXCEPT ![w] = "ErrOther"]
    /\ wpc' = [wpc EXCEPT ![w] = "fetched"]
    /\ UNCHANGED envVars
    /\ call' = <<>>
    /\ out' = "none"
    /\ UNCHANGED <<brokerVars, server, nc, sub, msgs, handled, ackTried, ctxDone,
                   mainpc, stopCalled, published>>

\* A plausible slip: ErrTimeout is not exempted.
IsFetchErrorNoExemption(e) == e # "nil"

\* if err != nil && err != nats.ErrTimeout
IsFetchError(e) == e # "nil" /\ e # "ErrTimeout"

\* A plausible slip: return err instead of continue.
OnFetchErrorReturn == "failed"

\* The error branch ends in `continue`: back to the select.
OnFetchError == "top"

\* The if after Fetch: log "Error fetching messages" and continue, or enter
\* the for loop over msgs (which ends at once when msgs is empty).
CheckFetch(w) ==
    /\ Alive
    /\ wpc[w] = "fetched"
    /\ UNCHANGED envVars
    /\ IF IsFetchError(err[w])
       THEN /\ call' = <<>>
            /\ out' = "log_error_fetching"
            /\ wpc' = [wpc EXCEPT ![w] = OnFetchError]
       ELSE /\ call' = <<>>
            /\ out' = "none"
            /\ wpc' = [wpc EXCEPT ![w] = IF msgs[w] = <<>> THEN "top" ELSE "handler"]
    /\ UNCHANGED <<brokerVars, server, nc, sub, msgs, err, handled, ackTried, ctxDone,
                   mainpc, stopCalled, published>>

\* A plausible slip: the batch is walked from its end.
CurrentNewestFirst(w) == msgs[w][Len(msgs[w]) - Cardinality(handled[w])]

\* The message the for loop is at: before its handler runs, and once the
\* handler has returned.
Current(w) == msgs[w][Cardinality(handled[w]) + 1]
Acking(w) == msgs[w][Cardinality(handled[w])]

\* The for loop moves on from the message it is at: to the next message, or,
\* the batch done (msgs goes out of scope), back to the select.  `acked` is
\* what the step adds to ackTried.
Advance(w, acked) ==
    IF Cardinality(handled[w]) = Len(msgs[w])
    THEN /\ wpc' = [wpc EXCEPT ![w] = "top"]
         /\ msgs' = [msgs EXCEPT ![w] = <<>>]
         /\ handled' = [handled EXCEPT ![w] = {}]
         /\ ackTried' = [ackTried EXCEPT ![w] = {}]
    ELSE /\ wpc' = [wpc EXCEPT ![w] = "handler"]
         /\ ackTried' = [ackTried EXCEPT ![w] = @ \cup acked]
         /\ UNCHANGED <<msgs, handled>>

\* A plausible slip: a message that does not decode is skipped (continue)
\* instead of acknowledged.
ThenAckIfDecoded(w) ==
    IF JsonUnmarshalOk(Current(w).data)
    THEN /\ wpc' = [wpc EXCEPT ![w] = "ack"]
         /\ handled' = [handled EXCEPT ![w] = @ \cup {Current(w).seq}]
         /\ UNCHANGED <<msgs, ackTried>>
    ELSE IF Cardinality(handled[w]) + 1 = Len(msgs[w])
    THEN /\ wpc' = [wpc EXCEPT ![w] = "top"]
         /\ msgs' = [msgs EXCEPT ![w] = <<>>]
         /\ handled' = [handled EXCEPT ![w] = {}]
         /\ ackTried' = [ackTried EXCEPT ![w] = {}]
    ELSE /\ wpc' = [wpc EXCEPT ![w] = "handler"]
         /\ handled' = [handled EXCEPT ![w] = @ \cup {Current(w).seq}]
         /\ UNCHANGED <<msgs, ackTried>>

\* handler(msg) has no result: whatever it did, msg.Ack() is next.
ThenAck(w) ==
    /\ wpc' = [wpc EXCEPT ![w] = "ack"]
    /\ handled' = [handled EXCEPT ![w] = @ \cup {Current(w).seq}]
    /\ UNCHANGED <<msgs, ackTried>>

\* handler(msg) of EntityWorker.Start, CommandWorker.Start, EventWorker.Start
\* and TelemetryWorker.Start: decode, log the data or the raw bytes, return.
Handler(w) ==
    /\ Alive
    /\ wpc[w] = "handler"
    /\ UNCHANGED envVars
    /\ call' = <<>>
    /\ out' = IF JsonUnmarshalOk(Current(w).data) THEN "log_data" ELSE "log_raw_data"
    /\ ThenAck(w)
    /\ UNCHANGED <<brokerVars, server, nc, sub, err, ctxDone, mainpc, stopCalled,
                   published>>

\* processMessages accepts any func(*nats.Msg): one that panics.  Nothing
\* recovers: the goroutine unwinds (m.wg.Done() is deferred) and the Go
\* runtime ends the process.
HandlerPanics(w) ==
    /\ Alive
    /\ wpc[w] = "handler"
    /\ wpc' = [wpc EXCEPT ![w] = "panicked"]
    /\ mainpc' = "crashed"
    /\ UNCHANGED envVars
    /\ call' = <<>>
    /\ out' = "panic"
    /\ UNCHANGED <<brokerVars, server, nc, sub, msgs, err, handled, ackTried, ctxDone,
                   stopCalled, published>>

\* msg.Ack() returns nil and the broker records the acknowledgment; under
\* work-queue and interest retention the message leaves the stream.
Ack(w) ==
    LET s == WorkerStream(w)
        n == Acking(w).seq
    IN /\ Alive
       /\ wpc[w] = "ack"
       /\ nc = "connected" /\ server = "running"
       /\ ackFloor' = [ackFloor EXCEPT ![s] = @ \cup {n}]
       /\ ackPending' = [ackPending EXCEPT ![s] = @ \ {n}]
       /\ stream' = IF Retention(s) = "LimitsPolicy" THEN stream
                    ELSE [stream EXCEPT ![s] = Without(s, {n})]
       /\ Advance(w, {n})
       /\ UNCHANGED envVars
       /\ call' = <<>>
       /\ out' = "none"
       /\ UNCHANGED <<lastSeq, dedup, numDelivered, server, nc, sub, err, ctxDone,
                      mainpc, stopCalled, published>>

\* A plausible slip: msg.Ack() is called again after it returned an error.
RetryAck(w) == UNCHANGED <<wpc, msgs, handled, ackTried>>

\* if err := msg.Ack(); err != nil { log.Printf(...) }: nothing but the log
\* line, the for loop moves on.
AfterAckError(w) == Advance(w, {Acking(w).seq})

\* msg.Ack() returns an error: "Error acknowledging message" is logged and
\* the loop goes on.
AckFails(w) ==
    /\ Alive
    /\ wpc[w] = "ack"
    /\ AfterAckError(w)
    /\ UNCHANGED envVars
    /\ call' = <<>>
    /\ out' = "log_error_acknowledging"
    /\ UNCHANGED <<brokerVars, server, nc, sub, err, ctxDone, mainpc, stopCalled,
                   published>>

(***************************************************************************)
(* main's shutdown path: the signal arrives, the HTTP server is shut down, *)
(* then Manager.Stop and EmbeddedNATS.Shutdown run.                        *)
(*   "serving" -> "cancel" -> "stop_workers" -> "wait" -> "close"          *)
(*             -> "nats_close" -> "server_shutdown" -> "exited"            *)
(***************************************************************************)
\* <-sigChan; server.Shutdown(shutdownCtx); workerManager.Stop() is entered.
Signal ==
    /\ mainpc = "serving"
    /\ mainpc' = "cancel"
    /\ UNCHANGED envVars
    /\ call' = <<>>
    /\ out' = "none"
    /\ UNCHANGED <<brokerVars, server, nc, workerVars, ctxDone, stopCalled, published>>

\* Manager.Stop: m.cancel()
StopCancel ==
    /\ mainpc = "cancel"
    /\ ctxDone' = TRUE
    /\ mainpc' = "stop_workers"
    /\ UNCHANGED envVars
    /\ call' = <<>>
    /\ out' = "none"
    /\ UNCHANGED <<brokerVars, server, nc, workerVars, stopCalled, published>>

\* The worker the loop of Manager.Stop is at.
NextToStop ==
    workers[CHOOSE i \in 1..Len(workers) :
                /\ workers[i] \notin stopCalled
                /\ \A j \in 1..(i - 1) : workers[j] \in stopCalled]

\* Manager.Stop: worker.Stop(), that is BaseWorker.Stop: w.sub.Drain() when
\* w.sub != nil.
StopWorker ==
    /\ mainpc = "stop_workers"
    /\ LET w == NextToStop IN
         /\ sub' = [sub EXCEPT ![w] = IF @ = "nil" THEN "nil" ELSE "drained"]
         /\ stopCalled' = stopCalled \cup {w}
         /\ mainpc' = IF stopCalled \cup {w} = WorkerNames THEN "wait" ELSE "stop_workers"
    /\ UNCHANGED envVars
    /\ call' = <<>>
    /\ out' = "none"
    /\ UNCHANGED <<brokerVars, server, nc, wpc, msgs, err, handled, ackTried, ctxDone,
                   published>>

\* A plausible slip: Manager.Stop does not wait for the goroutines.
WaitGroupSkipped == TRUE

\* A plausible slip: m.wg.Done() is not deferred but called after the
\* "stopped" log line of a worker that had entered its loop, so a goroutine
\* whose worker failed to subscribe never reports.
WaitGroupDoneAfterLoop == \A w \in WorkerNames : wpc[w] = "stopped" /\ sub[w] # "nil"

\* m.wg.Wait() returns: every goroutine of Manager.Start has called
\* m.wg.Done(), its worker's Start has returned.
WaitGroupDone == \A w \in WorkerNames : wpc[w] \in {"stopped", "failed"}

\* Manager.Stop: m.wg.Wait() returns once every worker goroutine has ended.
StopWait ==
    /\ mainpc = "wait"
    /\ WaitGroupDone
    /\ mainpc' = "close"
    /\ UNCHANGED envVars
    /\ call' = <<>>
    /\ out' = "none"
    /\ UNCHANGED <<brokerVars, server, nc, workerVars, ctxDone, stopCalled, published>>

\* Manager.Stop: m.nc.Close()
StopClose ==
    /\ mainpc = "close"
    /\ nc' = "closed"
    /\ mainpc' = "nats_close"
    /\ UNCHANGED envVars
    /\ call' = <<>>
    /\ out' = "none"
    /\ UNCHANGED <<brokerVars, server, workerVars, ctxDone, stopCalled, published>>

\* EmbeddedNATS.Shutdown: en.nc.Close()
ShutdownClose ==
    /\ mainpc = "nats_close"
    /\ nc' = "closed"
    /\ mainpc' = "server_shutdown"
    /\ UNCHANGED envVars
    /\ call' = <<>>
    /\ out' = "none"
    /\ UNCHANGED <<brokerVars, server, workerVars, ctxDone, stopCalled, published>>

\* EmbeddedNATS.Shutdown: en.server.Shutdown(); en.server.WaitForShutdown();
\* main returns.
ShutdownServer ==
    /\ mainpc = "server_shutdown"
    /\ server' = "stopped"
    /\ mainpc' = "exited"
    /\ UNCHANGED envVars
    /\ call' = <<>>
    /\ out' = "none"
    /\ UNCHANGED <<brokerVars, nc, workerVars, ctxDone, stopCalled, published>>

(***************************************************************************)
(* Specifications.                                                         *)
(***************************************************************************)
\* The stream of `subject` has a worker whose goroutine has not failed, or no
\* stream captures `subject`: traffic is explored on the streams that are
\* being consumed.
Watched(subject) ==
    \A s \in StreamsOf(subject) :
        \E w \in WorkerNames : WorkerStream(w) = s /\ wpc[w] # "failed"

\* A caller publishes any payload.
Publish == \E subject \in PublishSubjects, data \in Payloads, msgID \in MsgIDs :
               /\ Watched(subject)
               /\ PublishWithDedup(subject, data, msgID)
               /\ UNCHANGED envVars

\* A caller publishes a JSON object.
PublishObject == \E subject \in PublishSubjects, msgID \in MsgIDs :
                     /\ Watched(subject)
                     /\ PublishWithDedup(subject, "json_object", msgID)
                     /\ UNCHANGED envVars

\* The steps of worker w's goroutine while m.ctx is not cancelled.
Serve(w) ==
    \/ PullSubscribe(w)
    \/ PullSubscribeFails(w)
    \/ LoopFetch(w)
    \/ \E k \in 1..FetchBatch : FetchReturnsMsgs(w, k)
    \/ FetchTimesOut(w)
    \/ FetchFails(w)
    \/ CheckFetch(w)
    \/ Handler(w)
    \/ Ack(w)
    \/ AckFails(w)

\* The steps of worker w's goroutine.
Worker(w) ==
    \/ Serve(w)
    \/ LoopDone(w)

\* main from the signal on: Manager.Stop, EmbeddedNATS.Shutdown.
Main ==
    \/ Signal
    \/ StopCancel
    \/ StopWorker
    \/ StopWait
    \/ StopClose
    \/ ShutdownClose
    \/ ShutdownServer

\* Message traffic while main serves: publishes of any payload, AckWait and
\* redelivery.
Next ==
    \/ Publish
    \/ \E s \in StreamNames, n \in Seqs : AckWaitExpires(s, n)
    \/ \E w \in WorkerNames : Serve(w)

Spec == Init /\ [][Next]_vars

\* The state after initNATS and Manager.Start returned on a broker whose
\* store directory holds, in each stream, one message an earlier run of the
\* process published and no worker was handed; its Nats-Msg-Id has left the
\* duplicate window.
InitStored ==
    \E w \in WorkerNames :
        /\ stream = [s \in StreamNames |->
                       <<[seq |-> 1, msgID |-> "id0", data |-> "json_object",
                          subject |-> CHOOSE x \in PublishSubjects :
                                          s \in StreamsOf(x)]>>]
        /\ lastSeq = [s \in StreamNames |-> 1]
        /\ dedup = [s \in StreamNames |-> {}]
        /\ numDelivered = [s \in StreamNames |-> [n \in Seqs |-> 0]]
        /\ ackPending = [s \in StreamNames |-> {}]
        /\ ackFloor = [s \in StreamNames |-> {}]
        /\ server = "running"
        /\ nc = "connected"
        /\ wpc = [v \in WorkerNames |-> IF v = w THEN "spawned" ELSE "failed"]
        /\ sub = [v \in WorkerNames |-> "nil"]
        /\ msgs = [v \in WorkerNames |-> <<>>]
        /\ err = [v \in WorkerNames |-> "nil"]
        /\ handled = [v \in WorkerNames |-> {}]
        /\ ackTried = [v \in WorkerNames |-> {}]
        /\ ctxDone = FALSE
        /\ mainpc = "serving"
        /\ stopCalled = {}
        /\ published = 0
        /\ call = <<>>
        /\ out = "none"
        /\ streamCfg = [s \in StreamNames |-> Definition(s)]
        /\ streams = [s \in StreamNames |-> Definition(s)]
        /\ consumerCfg = [s \in StreamNames |-> Consumer(s)]
        /\ clock = 0
        /\ produced = {}
        /\ restarted = NoRestart
        /\ http = NoRequest
        /\ db = {}
        /\ ops = [r \in Requests |-> NoOp]
        /\ goroutines = {}
        /\ decl = NoCall

\* Publishes of JSON objects on streams that already hold a message, each
\* stream's worker fetching, handling and acknowledging without errors.
NextStored ==
    \/ PublishObject
    \/ \E w \in WorkerNames :
          \/ PullSubscribe(w)
          \/ LoopFetch(w)
          \/ \E k \in 1..FetchBatch : FetchReturnsMsgs(w, k)
          \/ CheckFetch(w)
          \/ Handler(w)
          \/ Ack(w)

SpecStored == InitStored /\ [][NextStored]_vars

\* Message traffic while main serves, with the duplicate window and MaxAge
\* running out.
NextWindow ==
    \/ PublishObject
    \/ \E s \in StreamNames, id \in MsgIDs : DuplicateWindowExpires(s, id)
    \/ \E s \in StreamNames : MaxAgeExpires(s)
    \/ \E w \in WorkerNames : Serve(w)

SpecWindow == Init /\ [][NextWindow]_vars

\* The entity service publishes the events of its requests.  A repeated
\* update publishes again; a repeated CreateEntity makes another entity and
\* a repeated DeleteEntity finds no row.
EntityEvents ==
    \E entity \in Entities, eventType \in EntityEventTypes, request \in Requests :
        /\ \A p \in produced : p.request = request =>
               /\ p.entity = entity
               /\ p.event.Type = eventType
               /\ eventType \in {EventTypeUpdated, EventTypeStatus}
        /\ publishEntityEvent(entity, eventType, request)
        /\ UNCHANGED <<db, ops, goroutines>>

\* The traffic of the entity stream: the entity service publishes, the
\* entity worker consumes.
NextEntity ==
    \/ EntityEvents
    \/ \E w \in WorkerNames : Serve(w)

SpecEntity == InitWith({"EntityWorker"}) /\ [][NextEntity]_vars

\* What an earlier run of the process left of a stream in the store
\* directory: nothing, the stream and consumer as declared now, or the
\* stream as an earlier version declared it.
LeftBehind == {"nothing", "declared", "other_limits", "other_retention"}

LeftStream(s, left) ==
    CASE left = "nothing" -> NotFound
      [] left = "declared" -> Definition(s)
      [] left = "other_limits" ->
            [Definition(s) EXCEPT !.MaxMsgs = @ + 1, !.DiscardPolicy = "DiscardOld"]
      [] left = "other_retention" ->
            [Definition(s) EXCEPT !.Retention = IF @ = "WorkQueuePolicy"
                                                THEN "LimitsPolicy"
                                                ELSE "WorkQueuePolicy"]

\* The stream definitions of this and of earlier versions of the process:
\* the one CreateConstellationStreams declares, one with another limit and
\* discard policy, one with another retention policy.
StreamConfigs(s) == {LeftStream(s, left) : left \in LeftBehind \ {"nothing"}}

\* The filter subjects of this and of an earlier version of the process.
FilterSubjects(s) == {Subjects(s), <<Subjects(s)[1], Subjects(s)[2], "org1", ">">>}

\* The streams whose declarations are explored: one with LimitsPolicy, one
\* with WorkQueuePolicy.
DeclaredStreams == {StreamEntities, StreamCommands}

\* The process after nats.Start() returned on an empty store directory:
\* the broker runs, the client is connected, nothing is declared.
InitDeclare ==
    /\ stream = [s \in StreamNames |-> <<>>]
    /\ lastSeq = [s \in StreamNames |-> 0]
    /\ dedup = [s \in StreamNames |-> {}]
    /\ numDelivered = [s \in StreamNames |-> [n \in Seqs |-> 0]]
    /\ ackPending = [s \in StreamNames |-> {}]
    /\ ackFloor = [s \in StreamNames |-> {}]
    /\ server = "running"
    /\ nc = "connected"
    /\ wpc = [w \in WorkerNames |-> "unstarted"]
    /\ sub = [w \in WorkerNames |-> "nil"]
    /\ msgs = [w \in WorkerNames |-> <<>>]
    /\ err = [w \in WorkerNames |-> "nil"]
    /\ handled = [w \in WorkerNames |-> {}]
    /\ ackTried = [w \in WorkerNames |-> {}]
    /\ ctxDone = FALSE
    /\ mainpc = AddStreamStep(1)
    /\ stopCalled = {}
    /\ published = 0
    /\ call = <<>>
    /\ out = "none"
    /\ streamCfg = [s \in StreamNames |-> NotFound]
    /\ streams = [s \in StreamNames |-> NotFound]
    /\ consumerCfg = [s \in StreamNames |-> NotFound]
    /\ clock = 0
    /\ produced = {}
    /\ restarted = NoRestart
    /\ http = NoRequest
    /\ db = {}
    /\ ops = [r \in Requests |-> NoOp]
    /\ goroutines = {}
    /\ decl = NoCall

\* A caller declares a stream.
DeclareStream ==
    \E s \in DeclaredStreams, brokerAccepts \in BOOLEAN :
      \E streamConfig \in StreamConfigs(s) :
        /\ Alive
        /\ AddStream(streamConfig, brokerAccepts)
        /\ UNCHANGED mainpc

\* A caller declares a durable consumer.
DeclareConsumer ==
    \E s \in DeclaredStreams, brokerAccepts \in BOOLEAN :
      \E filterSubject \in FilterSubjects(s) :
        /\ Alive
        /\ CreateDurableConsumer(s, ConsumerOf(s), filterSubject, brokerAccepts)
        /\ UNCHANGED mainpc

\* Declarations in any order, any number of times.
NextDeclare ==
    \/ DeclareStream
    \/ DeclareConsumer

SpecDeclare == InitDeclare /\ [][NextDeclare]_vars

\* A caller declares a worker's durable consumer again while the process
\* serves.
Redeclare ==
    \E w \in WorkerNames, brokerAccepts \in BOOLEAN :
      \E filterSubject \in FilterSubjects(WorkerStream(w)) :
        /\ Alive
        /\ wpc[w] # "failed"
        /\ CreateDurableConsumer(WorkerStream(w), ConsumerOf(WorkerStream(w)),
                                 filterSubject, brokerAccepts)
        /\ UNCHANGED mainpc

\* Message traffic and repeated consumer declarations.
NextRedeclare ==
    \/ PublishObject
    \/ Redeclare
    \/ \E w \in WorkerNames : Serve(w)

SpecRedeclare == Init /\ [][NextRedeclare]_vars

\* Message traffic of workers started on a broker that has their durable
\* consumers, or has none of them.
InitProvision ==
    \E w \in WorkerNames, provisioned \in {{}, StreamNames} :
        InitOn({w}, provisioned)

NextProvision ==
    \/ PublishObject
    \/ \E w \in WorkerNames : Serve(w)

SpecProvision == InitProvision /\ [][NextProvision]_vars

\* The process at the call of initNATS: no broker runs, no connection, no
\* worker; the store directory holds what earlier runs left.
InitBoot ==
    \E left \in [StreamNames -> LeftBehind] :
        /\ stream = [s \in StreamNames |-> <<>>]
        /\ lastSeq = [s \in StreamNames |-> 0]
        /\ dedup = [s \in StreamNames |-> {}]
        /\ numDelivered = [s \in StreamNames |-> [n \in Seqs |-> 0]]
        /\ ackPending = [s \in StreamNames |-> {}]
        /\ ackFloor = [s \in StreamNames |-> {}]
        /\ server = "nil"
        /\ nc = "nil"
        /\ wpc = [w \in WorkerNames |-> "unstarted"]
        /\ sub = [w \in WorkerNames |-> "nil"]
        /\ msgs = [w \in WorkerNames |-> <<>>]
        /\ err = [w \in WorkerNames |-> "nil"]
        /\ handled = [w \in WorkerNames |-> {}]
        /\ ackTried = [w \in WorkerNames |-> {}]
        /\ ctxDone = FALSE
        /\ mainpc = "init_nats"
        /\ stopCalled = {}
        /\ published = 0
        /\ call = <<>>
        /\ out = "none"
        /\ streamCfg = [s \in StreamNames |-> LeftStream(s, left[s])]
        /\ streams = [s \in StreamNames |-> NotFound]
        /\ consumerCfg = [s \in StreamNames |->
                             IF left[s] = "nothing" THEN NotFound ELSE Consumer(s)]
        /\ clock = 0
        /\ produced = {}
        /\ restarted = NoRestart
        /\ http = NoRequest
        /\ db = {}
        /\ ops = [r \in Requests |-> NoOp]
        /\ goroutines = {}
        /\ decl = NoCall

\* The start of the process.
NextBoot ==
    \/ \E result \in {"started", "err_new_server", "err_not_ready", "err_connect"} :
          Start(result)
    \/ \E i \in 1..Len(streamOrder), brokerAccepts \in BOOLEAN :
          CreateConstellationStreams(i, brokerAccepts)
    \/ \E i \in 1..Len(consumerOrder), brokerAccepts \in BOOLEAN :
          CreateConsumers(i, brokerAccepts)
    \/ NewManager
    \/ ManagerStart
    \/ ListenAndServe

SpecBoot == InitBoot /\ [][NextBoot]_vars

\* main at workerManager.Start(): initNATS has declared the streams and
\* consumers, the manager holds its four workers, none is started.
InitWorkers ==
    /\ stream = [s \in StreamNames |-> <<>>]
    /\ lastSeq = [s \in StreamNames |-> 0]
    /\ dedup = [s \in StreamNames |-> {}]
    /\ numDelivered = [s \in StreamNames |-> [n \in Seqs |-> 0]]
    /\ ackPending = [s \in StreamNames |-> {}]
    /\ ackFloor = [s \in StreamNames |-> {}]
    /\ server = "running"
    /\ nc = "connected"
    /\ wpc = [w \in WorkerNames |-> "unstarted"]
    /\ sub = [w \in WorkerNames |-> "nil"]
    /\ msgs = [w \in WorkerNames |-> <<>>]
    /\ err = [w \in WorkerNames |-> "nil"]
    /\ handled = [w \in WorkerNames |-> {}]
    /\ ackTried = [w \in WorkerNames |-> {}]
    /\ ctxDone = FALSE
    /\ mainpc = "manager_start"
    /\ stopCalled = {}
    /\ published = 0
    /\ call = <<>>
    /\ out = "none"
    /\ streamCfg = [s \in StreamNames |-> Definition(s)]
    /\ streams = [s \in StreamNames |-> Definition(s)]
    /\ consumerCfg = [s \in StreamNames |-> Consumer(s)]
    /\ clock = 0
    /\ produced = {}
    /\ restarted = NoRestart
    /\ http = NoRequest
    /\ db = {}
    /\ ops = [r \in Requests |-> NoOp]
    /\ goroutines = {}
    /\ decl = NoCall

\* A caller publishes a JSON object on the telemetry subject.
PublishTelemetry == \E msgID \in MsgIDs :
    /\ PublishWithDedup(<<"constellation", "telemetry", "org1", "e1">>,
                        "json_object", msgID)
    /\ UNCHANGED envVars

\* Manager.Start and the workers side by side, with telemetry traffic.  Any
\* of the four workers may fail at its start; the loops of the first and the
\* last of Manager.workers are followed.
NextWorkers ==
    \/ ManagerStart
    \/ ListenAndServe
    \/ PublishTelemetry
    \/ \E w \in WorkerNames : PullSubscribeFails(w)
    \/ \E w \in {workers[1], workers[Len(workers)]} : Serve(w)

SpecWorkers == InitWorkers /\ [][NextWorkers]_vars

\* A plausible slip: the streams are declared with Storage: MemoryStorage.
MemoryStorage == FALSE

\* AddStream's nats.StreamConfig leaves Storage at its zero value,
\* FileStorage: streams and consumers live in the broker's StoreDir.
FileStorage == TRUE

\* The process is started again after it ended (main returned, or log.Fatal
\* at start-up).  Nothing of the old process is left; the store directory
\* holds the streams, their messages and the consumers with their delivery
\* and acknowledgment state.  `restarted` keeps what the consumers knew at
\* that moment; one restart is followed.
Restart ==
    /\ mainpc \in {"exited", "fatal"}
    /\ ~restarted.happened
    /\ mainpc' = "init_nats"
    /\ server' = "nil"
    /\ nc' = "nil"
    /\ wpc' = [w \in WorkerNames |-> "unstarted"]
    /\ sub' = [w \in WorkerNames |-> "nil"]
    /\ msgs' = [w \in WorkerNames |-> <<>>]
    /\ err' = [w \in WorkerNames |-> "nil"]
    /\ handled' = [w \in WorkerNames |-> {}]
    /\ ackTried' = [w \in WorkerNames |-> {}]
    /\ ctxDone' = FALSE
    /\ stopCalled' = {}
    /\ streams' = [s \in StreamNames |-> NotFound]
    /\ decl' = NoCall
    /\ call' = <<>>
    /\ out' = "none"
    /\ restarted' =
          [happened |-> TRUE,
           acked |-> ackFloor,
           unacked |-> [s \in StreamNames |->
                          {n \in SeqsOf(stream[s]) \ ackFloor[s] :
                              numDelivered[s][n] > 0}],
           delivered |-> numDelivered]
    /\ IF FileStorage
       THEN UNCHANGED <<brokerVars, streamCfg, consumerCfg>>
       ELSE /\ stream' = [s \in StreamNames |-> <<>>]
            /\ lastSeq' = [s \in StreamNames |-> 0]
            /\ dedup' = [s \in StreamNames |-> {}]
            /\ numDelivered' = [s \in StreamNames |-> [n \in Seqs |-> 0]]
            /\ ackPending' = [s \in StreamNames |-> {}]
            /\ ackFloor' = [s \in StreamNames |-> {}]
            /\ streamCfg' = [s \in StreamNames |-> NotFound]
            /\ consumerCfg' = [s \in StreamNames |-> NotFound]
    /\ UNCHANGED <<published, clock, produced, http, db, ops, goroutines>>

\* A caller publishes a JSON object on an entity subject.
PublishEntity == \E msgID \in MsgIDs :
    /\ PublishWithDedup(EntityCreatedSubject("org1"), "json_object", msgID)
    /\ UNCHANGED envVars

\* The process runs, shuts down and is started again, with traffic on the
\* entities stream.  The loop of the EntityWorker is followed; the other
\* workers have failed at their start or are not scheduled.
NextRestart ==
    \/ PublishEntity
    \/ \E n \in Seqs : AckWaitExpires(StreamEntities, n)
    \/ Worker("EntityWorker")
    \/ Main
    \/ Restart
    \/ Start("started")
    \/ \E i \in 1..Len(streamOrder) : CreateConstellationStreams(i, TRUE)
    \/ \E i \in 1..Len(consumerOrder) : CreateConsumers(i, TRUE)
    \/ NewManager
    \/ ManagerStart
    \/ ListenAndServe

SpecRestart == InitWith({"EntityWorker"}) /\ [][NextRestart]_vars

\* A plausible slip: HealthCheck looks at the connection only.
HealthCheckConnectionOnly ==
    IF nc = "nil" THEN "NATS connection not initialized"
    ELSE IF nc # "connected" THEN "NATS not connected"
    ELSE "nil"

\* EmbeddedNATS.HealthCheck: the error it returns, "nil" for none.
HealthCheck ==
    IF nc = "nil" THEN "NATS connection not initialized"
    ELSE IF nc # "connected" THEN "NATS not connected"
    ELSE IF server # "nil" /\ server # "running" THEN "NATS server not running"
    ELSE "nil"

\* What a step that called EmbeddedNATS.HealthCheck reports of its result.
Returned(e) == "HealthCheck returned " \o e

HealthCheckErrors ==
    {"NATS connection not initialized", "NATS not connected",
     "NATS server not running"}

\* A caller in the process calls nats.HealthCheck().
CallHealthCheck ==
    /\ Alive
    /\ out' = Returned(HealthCheck)
    /\ call' = <<>>
    /\ UNCHANGED envVars
    /\ UNCHANGED <<brokerVars, server, nc, workerVars, ctxDone, mainpc, stopCalled,
                   published>>

\* health.Details["database"] / ["nats"] of Handlers.HealthCheck.
Details(e) == IF e = "nil" THEN "healthy" ELSE "unhealthy: " \o e

\* The status code of Handlers.HealthCheck: 503 when health.Status is
\* "unhealthy".
HealthStatus(dbPing, natsErr) ==
    IF dbPing = "nil" /\ natsErr = "nil" THEN "200" ELSE "503"

\* The response of Handlers.HealthCheck: the status code and the two details.
HealthResponse(dbPing, natsErr) ==
    HealthStatus(dbPing, natsErr)
        \o " database " \o Details(dbPing) \o ", nats " \o Details(natsErr)

\* GET /health while the HTTP server serves: Handlers.HealthCheck pings the
\* database, calls nats.HealthCheck() and answers 200 or 503.
HandlersHealthCheck == \E dbPing \in {"nil", "database is closed"} :
    /\ mainpc = "serving"
    /\ out' = HealthResponse(dbPing, HealthCheck)
    /\ call' = <<>>
    /\ UNCHANGED envVars
    /\ UNCHANGED <<brokerVars, server, nc, workerVars, ctxDone, mainpc, stopCalled,
                   published>>

\* The broker stops while the process lives: en.server.Running() turns false.
ServerStops ==
    /\ Alive /\ server = "running"
    /\ server' = "stopped"
    /\ out' = "none"
    /\ call' = <<>>
    /\ UNCHANGED envVars
    /\ UNCHANGED <<brokerVars, nc, workerVars, ctxDone, mainpc, stopCalled, published>>

\* The client loses its connection (DisconnectErrHandler logs it) and starts
\* to reconnect: en.nc.IsConnected() turns false.
Disconnected ==
    /\ Alive /\ nc = "connected"
    /\ nc' = "disconnected"
    /\ out' = "log_nats_disconnected"
    /\ call' = <<>>
    /\ UNCHANGED envVars
    /\ UNCHANGED <<brokerVars, server, workerVars, ctxDone, mainpc, stopCalled,
                   published>>

\* The client reconnects to the running broker (MaxReconnects(-1),
\* ReconnectHandler logs it).
Reconnected ==
    /\ Alive /\ nc = "disconnected" /\ server = "running"
    /\ nc' = "connected"
    /\ out' = "log_nats_reconnected"
    /\ call' = <<>>
    /\ UNCHANGED envVars
    /\ UNCHANGED <<brokerVars, server, workerVars, ctxDone, mainpc, stopCalled,
                   published>>

\* The process from initNATS to the return of main, with the broker and the
\* connection able to fail at any point, and health checks at any point.
\* Each worker subscribes, or fails to, and ends at the cancellation.
NextHealth ==
    \/ \E result \in {"started", "err_new_server", "err_not_ready", "err_connect"} :
          Start(result)
    \/ \E i \in 1..Len(streamOrder) : CreateConstellationStreams(i, TRUE)
    \/ \E i \in 1..Len(consumerOrder) : CreateConsumers(i, TRUE)
    \/ NewManager
    \/ ManagerStart
    \/ ListenAndServe
    \/ \E w \in WorkerNames : PullSubscribe(w) \/ PullSubscribeFails(w) \/ LoopDone(w)
    \/ Main
    \/ ServerStops
    \/ Disconnected
    \/ Reconnected
    \/ CallHealthCheck
    \/ HandlersHealthCheck

SpecHealth == InitBoot /\ [][NextHealth]_vars

(***************************************************************************)
(* The HTTP API: main's handler chain CORS(RequestLogger(mux)), the routes  *)
(* of Handlers.RegisterRoutes and middleware.BearerAuth.                    *)
(***************************************************************************)
\* os.Getenv("API_BEARER_TOKEN"): unset, or the deployment's secret.
EnvTokens == {"", "secret"}

DefaultToken == "constellation-dev-token"

\* validToken of BearerAuth.
ValidToken(env) == IF env = "" THEN DefaultToken ELSE env

\* The tokens requests carry: each is the valid one under one environment
\* and a wrong one under the other.
Tokens == {DefaultToken, "secret"}

\* strings.ToLower, on the words an Authorization header starts with.
ToLower(s) ==
    CASE s \in {"Bearer", "bearer", "BEARER"} -> "bearer"
      [] s = "Basic" -> "basic"
      [] s = DefaultToken -> DefaultToken

\* The Authorization headers of requests, as strings.Split(authHeader, " ")
\* cuts them: no header (<<"">>), a bare token, "Bearer" and a token (or
\* nothing after the blank), another spelling or another scheme and a token,
\* "Bearer", two blanks and a token.
AuthHeaders ==
    {<<"">>, <<DefaultToken>>, <<"Bearer", "">>, <<"bearer", DefaultToken>>,
     <<"Basic", DefaultToken>>, <<"Bearer", "", DefaultToken>>}
        \cup {<<"Bearer", t>> : t \in Tokens}

\* A plausible slip: any bearer token is accepted.
BearerAuthAnyToken(authHeader, env) ==
    IF authHeader = <<"">> THEN "Missing authorization header"
    ELSE IF Len(authHeader) # 2 \/ ToLower(authHeader[1]) # "bearer"
         THEN "Invalid authorization format"
    ELSE "next"

\* middleware.BearerAuth: "next" when it calls next(w, r), the message of
\* its 401 response otherwise.
BearerAuth(authHeader, env) ==
    IF authHeader = <<"">> THEN "Missing authorization header"
    ELSE IF Len(authHeader) # 2 \/ ToLower(authHeader[1]) # "bearer"
         THEN "Invalid authorization format"
    ELSE IF authHeader[2] # ValidToken(env) THEN "Invalid token"
    ELSE "next"

\* The patterns Handlers.RegisterRoutes registers on the mux.
RegisteredRoutes == {"/health", "/api/v1/organizations", "/api/v1/entities"}

Paths == RegisteredRoutes \cup {"/api/v1/commands"}

Methods == {"GET", "POST", "PUT", "DELETE", "PATCH", "OPTIONS"}

\* The handlers RegisterRoutes wraps in middleware.BearerAuth.
Protected ==
    {"CreateOrganization", "GetOrganization", "ListOrganizations",
     "CreateEntity", "GetEntity", "ListEntities", "UpdateEntity", "DeleteEntity"}

\* The handler the mux and the method switches of RegisterRoutes select;
\* hasID: the query carries org_id (organizations) or entity_id (entities).
\* "405": sendError(MethodNotAllowed); "404": the mux has no such pattern.
Route(path, method, hasID) ==
    CASE path = "/health" -> "HealthCheck"
      [] path = "/api/v1/organizations" ->
            (CASE method = "POST" -> "CreateOrganization"
               [] method = "GET" ->
                     IF hasID THEN "GetOrganization" ELSE "ListOrganizations"
               [] OTHER -> "405")
      [] path = "/api/v1/entities" ->
            (CASE method = "POST" -> "CreateEntity"
               [] method = "GET" -> IF hasID THEN "GetEntity" ELSE "ListEntities"
               [] method = "PUT" -> "UpdateEntity"
               [] method = "DELETE" -> "DeleteEntity"
               [] OTHER -> "405")
      [] OTHER -> "404"

\* The status codes a handler answers with: 400 before it calls its
\* service, 404 and 500 on the service's error, 200 or 201 on success.
Statuses(handler) ==
    CASE handler = "CreateOrganization" -> {"201", "400", "500"}
      [] handler = "ListOrganizations" -> {"200", "500"}
      [] handler = "GetOrganization" -> {"200", "404", "500"}
      [] handler = "CreateEntity" -> {"201", "400", "500"}
      [] handler = "ListEntities" -> {"200", "400", "500"}
      [] handler \in {"GetEntity", "UpdateEntity", "DeleteEntity"} ->
            {"200", "400", "404", "500"}

\* The event EntityService leaves to `go s.publishEntityEvent` when the
\* operation of `handler` succeeded.
EventOf(handler) ==
    CASE handler = "CreateEntity" -> EventTypeCreated
      [] handler = "UpdateEntity" -> EventTypeUpdated
      [] handler = "DeleteEntity" -> EventTypeDeleted
      [] OTHER -> "none"

\* What the server does with a request: the status of the response, the
\* handler that ran, whether it called its service, the event it spawned.
Exchange(status, handler, service, goroutine) ==
    [status |-> status, handler |-> handler, service |-> service,
     goroutine |-> goroutine]

\* The HTTP server answers one request: CORS answers OPTIONS itself, the mux
\* selects the pattern, the method switch the handler; BearerAuth answers
\* 401 or calls the handler.
ServeHTTP ==
    \E path \in Paths, method \in Methods, hasID \in BOOLEAN,
       authHeader \in AuthHeaders, env \in EnvTokens :
      LET handler == Route(path, method, hasID)
          request == [path |-> path, method |-> method, hasID |-> hasID,
                      authHeader |-> authHeader, env |-> env]
          Answer(x) == http' = request @@ x
      IN /\ mainpc = "serving"
         /\ IF method = "OPTIONS"
            THEN Answer(Exchange("204", "none", FALSE, "none"))
            ELSE IF handler \in {"404", "405"}
            THEN Answer(Exchange(handler, "none", FALSE, "none"))
            ELSE IF handler = "HealthCheck"
            THEN \E dbPing \in {"nil", "database is closed"} :
                    Answer(Exchange(HealthStatus(dbPing, HealthCheck), handler,
                                    FALSE, "none"))
            ELSE IF BearerAuth(authHeader, env) # "next"
            THEN Answer(Exchange("401", "none", FALSE, "none"))
            ELSE \E status \in Statuses(handler) :
                    Answer(Exchange(status, handler, status # "400",
                                    IF status \in {"200", "201"}
                                    THEN EventOf(handler) ELSE "none"))
         /\ out' = "none"
         /\ call' = <<>>
         /\ UNCHANGED <<streamCfg, streams, consumerCfg, clock, produced, decl,
                        restarted, db, ops, goroutines>>
         /\ UNCHANGED <<brokerVars, server, nc, workerVars, ctxDone, mainpc,
                        stopCalled, published>>

\* The HTTP API serves requests.  (The goroutines of the entity service
\* publish under SpecEntity.)
SpecAPI == InitWith({"EntityWorker"}) /\ [][ServeHTTP]_vars

\* Message traffic with a handler that may panic.
NextAnyHandler ==
    \/ PublishObject
    \/ \E w \in WorkerNames : Serve(w)
    \/ \E w \in WorkerNames : HandlerPanics(w)

SpecAnyHandler == Init /\ [][NextAnyHandler]_vars

\* Message traffic and the shutdown of the process.  The goroutine of
\* Manager.Start runs each worker's loop until it returns: weak fairness of
\* each worker's steps.
NextStop ==
    \/ PublishObject
    \/ \E w \in WorkerNames : Worker(w)
    \/ Main

SpecStop == Init /\ [][NextStop]_vars /\ \A w \in WorkerNames : WF_vars(Worker(w))

\* Manager.Stop from m.cancel() to its return.
ManagerStop ==
    \/ StopCancel
    \/ StopWorker
    \/ StopWait
    \/ StopClose

\* The shutdown with the goroutines of the workers and the goroutine that
\* runs Manager.Stop scheduled fairly: a Fetch returns within MaxWait, a
\* handler and msg.Ack() return.
SpecManagerStop ==
    /\ Init
    /\ [][NextStop]_vars
    /\ \A w \in WorkerNames : WF_vars(Worker(w))
    /\ WF_vars(ManagerStop)

\* The shutdown of the process with two workers running, the first and the
\* last of Manager.workers.
InitPair == InitWith({workers[1], workers[Len(workers)]})

SpecShutdown == InitPair /\ [][NextStop]_vars

\* Message traffic under fair scheduling: each worker's loop keeps running,
\* a Fetch that can return messages infinitely often does so, and the AckWait
\* of a pending message runs out.
NextLive ==
    \/ PublishObject
    \/ \E s \in StreamNames, n \in Seqs : AckWaitExpires(s, n)
    \/ \E w \in WorkerNames : Serve(w)

SpecLive ==
    /\ Init
    /\ [][NextLive]_vars
    /\ \A w \in WorkerNames : WF_vars(Serve(w))
    /\ \A w \in WorkerNames : SF_vars(\E k \in 1..FetchBatch : FetchReturnsMsgs(w, k))
    /\ \A s \in StreamNames, n \in Seqs : WF_vars(AckWaitExpires(s, n))

(***************************************************************************)
(* EntityService: one action per statement an operation sends to the       *)
(* database (db.SetMaxOpenConns(1): the statements of concurrent calls run *)
(* one at a time, in any order), and the goroutines the operations start.  *)
(***************************************************************************)
Orgs == {"org1", "org2"}
EntityIDs == {"e1", "e2", "e3"}
StatusUnknown == "unknown"
StatusActive == "active"

\* sql.ErrNoRows, and any other error of the driver.
ErrNoRows == "sql: no rows in result set"
ErrDatabase == "database is closed"

\* A row of table entities, and the *ontology.Entity built from it.
Row(entityID, orgID, status) ==
    [EntityID |-> entityID, OrgID |-> orgID, Status |-> status]

\* A nil *ontology.Entity.
NoEntity == Row("", "", "")

\* A plausible slip: the statement selects by entity_id alone.
WhereAnyOrg(orgID, entityID) == {row \in db : row.EntityID = entityID}

\* WHERE org_id = ? AND entity_id = ?
Where(orgID, entityID) ==
    {row \in db : row.OrgID = orgID /\ row.EntityID = entityID}

\* uuid.New().String(): an id no row has and no caller has named.
UsedIDs ==
    {row.EntityID : row \in db}
        \cup {ops[r].entityID : r \in {x \in Requests : ops[x] # NoOp}}
        \cup {g.entity.EntityID : g \in goroutines}

\* scanEntity: the error of scanner.Scan is wrapped.
scanEntity(scanErr) ==
    IF scanErr = "nil" THEN "nil" ELSE "failed to scan entity: " \o scanErr

\* The error GetEntity returns when Scan returned scanErr: `err ==
\* sql.ErrNoRows` compares the error scanEntity returned.
GetEntityError(scanErr) ==
    LET error == scanEntity(scanErr)
    IN IF error = ErrNoRows THEN "entity not found" ELSE error

\* s.db.QueryRow(...).Scan(...) of GetEntity: the error of the driver, or
\* sql.ErrNoRows when no row matches.
ScanError(orgID, entityID, dbErr) ==
    IF dbErr THEN ErrDatabase
    ELSE IF Where(orgID, entityID) = {} THEN ErrNoRows ELSE "nil"

\* The call of an operation as ops records it: pc is "get" before the
\* operation's GetEntity, "exec" before its DELETE, "returned" once it has
\* returned; entity is the row its GetEntity scanned, returned the entities
\* and err the error it returned; wrote tells that its INSERT, UPDATE or
\* DELETE changed a row.
OpCall(op, orgID, entityID, pc, entity, returned, error, wrote) ==
    [op |-> op, orgID |-> orgID, entityID |-> entityID, pc |-> pc,
     entity |-> entity, returned |-> returned, err |-> error, wrote |-> wrote]

\* go s.publishEntityEvent(entity, eventType), started by request r.
Go(r, entity, eventType) ==
    [request |-> r, entity |-> entity, eventType |-> eventType, pc |-> "spawned"]

\* A step of the entity service leaves the broker, the workers and main
\* alone.
ServiceStep ==
    /\ mainpc = "serving"
    /\ call' = <<>>
    /\ out' = "none"
    /\ UNCHANGED <<brokerVars, server, nc, workerVars, ctxDone, mainpc, stopCalled,
                   published, streamCfg, streams, consumerCfg, clock, produced, decl,
                   restarted, http>>

\* A plausible slip: the goroutine is started before the error of Exec is
\* looked at.
SpawnedOnErrorToo(r, entity, eventType) == {Go(r, entity, eventType)}

\* What an operation has started when it returns the error of its write.
SpawnedOnError(r, entity, eventType) == {}

\* CreateEntity: INSERT INTO entities; on success the goroutine of the
\* "created" event is started and the entity returned.
CreateEntity(r, orgID, status, dbErr) ==
    /\ ops[r] = NoOp
    /\ EntityIDs \ UsedIDs # {}
    /\ ServiceStep
    /\ LET entityID == CHOOSE id \in EntityIDs \ UsedIDs : TRUE
           entity == Row(entityID, orgID,
                         IF status = "" THEN StatusUnknown ELSE status)
       IN IF dbErr
          THEN /\ ops' = [ops EXCEPT ![r] =
                     OpCall("CreateEntity", orgID, entityID, "returned", NoEntity, {},
                            "failed to create entity: " \o ErrDatabase, FALSE)]
               /\ goroutines' = goroutines
                      \cup SpawnedOnError(r, entity, EventTypeCreated)
               /\ UNCHANGED db
          ELSE /\ db' = db \cup {entity}
               /\ goroutines' = goroutines \cup {Go(r, entity, EventTypeCreated)}
               /\ ops' = [ops EXCEPT ![r] =
                     OpCall("CreateEntity", orgID, entityID, "returned", NoEntity,
                            {entity}, "nil", TRUE)]

\* ListEntities: SELECT ... WHERE org_id = ?
ListEntities(r, orgID, dbErr) ==
    /\ ops[r] = NoOp
    /\ ServiceStep
    /\ ops' = [ops EXCEPT ![r] =
          IF dbErr
          THEN OpCall("ListEntities", orgID, "", "returned", NoEntity, {},
                      "failed to query entities: " \o ErrDatabase, FALSE)
          ELSE OpCall("ListEntities", orgID, "", "returned", NoEntity,
                      {row \in db : row.OrgID = orgID}, "nil", FALSE)]
    /\ UNCHANGED <<db, goroutines>>

\* GetEntity, called by a client.
GetEntity(r, orgID, entityID, dbErr) ==
    /\ ops[r] = NoOp
    /\ ServiceStep
    /\ LET error == GetEntityError(ScanError(orgID, entityID, dbErr))
       IN ops' = [ops EXCEPT ![r] =
            OpCall("GetEntity", orgID, entityID, "returned", NoEntity,
                   IF error = "nil" THEN Where(orgID, entityID) ELSE {}, error, FALSE)]
    /\ UNCHANGED <<db, goroutines>>

\* UpdateEntity, and UpdateEntityStatus which calls it with the one update
\* "status", up to the UPDATE: status "" stands for an empty map of updates.
UpdateEntityExec(r, op, orgID, entityID, status, dbErr) ==
    /\ ops[r] = NoOp
    /\ op = "UpdateEntityStatus" => status # ""
    /\ ServiceStep
    /\ LET Returns(error) == OpCall(op, orgID, entityID, "returned", NoEntity,
                                    {}, error, FALSE)
           rows == Where(orgID, entityID)
       IN IF status = ""
          THEN /\ ops' = [ops EXCEPT ![r] = Returns("no updates provided")]
               /\ UNCHANGED db
          ELSE IF dbErr
          THEN /\ ops' = [ops EXCEPT ![r] =
                     Returns("failed to update entity: " \o ErrDatabase)]
               /\ UNCHANGED db
          ELSE IF rows = {}           \* rowsAffected == 0
          THEN /\ ops' = [ops EXCEPT ![r] = Returns("entity not found")]
               /\ UNCHANGED db
          ELSE /\ db' = (db \ rows)
                      \cup {Row(row.EntityID, row.OrgID, status) : row \in rows}
               /\ ops' = [ops EXCEPT ![r] =
                     OpCall(op, orgID, entityID, "get", NoEntity, {}, "nil", TRUE)]
    /\ UNCHANGED goroutines

\* A plausible slip: UpdateEntityStatus runs its own UPDATE instead of
\* calling UpdateEntity, and no "updated" event is started for it.
UpdatedUnlessStatus(r, op, entity) ==
    IF op = "UpdateEntityStatus" THEN {} ELSE {Go(r, entity, EventTypeUpdated)}

\* go s.publishEntityEvent(entity, shared.EventTypeUpdated) of UpdateEntity,
\* whoever called it.
Updated(r, op, entity) == {Go(r, entity, EventTypeUpdated)}

\* UpdateEntity after its UPDATE: s.GetEntity, whose error is returned; else
\* the goroutine of the "updated" event is started; UpdateEntityStatus then
\* starts the goroutine of the "status_changed" event.
UpdateEntityGet(r, dbErr) ==
    /\ ops[r] # NoOp
    /\ ops[r].op \in {"UpdateEntity", "UpdateEntityStatus"}
    /\ ops[r].pc = "get"
    /\ ServiceStep
    /\ LET orgID == ops[r].orgID
           entityID == ops[r].entityID
           error == GetEntityError(ScanError(orgID, entityID, dbErr))
           entity == CHOOSE row \in Where(orgID, entityID) : TRUE
       IN IF error # "nil"
          THEN /\ ops' = [ops EXCEPT ![r].pc = "returned", ![r].err = error]
               /\ UNCHANGED goroutines
          ELSE /\ ops' = [ops EXCEPT ![r].pc = "returned", ![r].entity = entity,
                                     ![r].returned =
                                         IF ops[r].op = "UpdateEntityStatus"
                                         THEN {} ELSE {entity}]
               /\ goroutines' = goroutines
                      \cup Updated(r, ops[r].op, entity)
                      \cup IF ops[r].op = "UpdateEntityStatus"
                           THEN {Go(r, entity, EventTypeStatus)} ELSE {}
    /\ UNCHANGED db

\* The calls that have not returned.
InProgress == {q \in Requests : ops[q] # NoOp /\ ops[q].pc # "returned"}

\* DeleteEntity is called: nothing has been sent to the database yet.  (The
\* other operations are entered with their first statement.)  `concurrent`
\* records the calls in progress at that moment.
DeleteEntity(r, orgID, entityID) ==
    /\ ops[r] = NoOp
    /\ ServiceStep
    /\ ops' = [ops EXCEPT ![r] =
          OpCall("DeleteEntity", orgID, entityID, "get", NoEntity, {}, "nil", FALSE)
              @@ [concurrent |-> InProgress]]
    /\ UNCHANGED <<db, goroutines>>

\* DeleteEntity up to its DELETE: s.GetEntity, whose error is returned.
DeleteEntityGet(r, dbErr) ==
    /\ ops[r] # NoOp
    /\ ops[r].op = "DeleteEntity"
    /\ ops[r].pc = "get"
    /\ ServiceStep
    /\ LET orgID == ops[r].orgID
           entityID == ops[r].entityID
           error == GetEntityError(ScanError(orgID, entityID, dbErr))
       IN ops' = IF error # "nil"
                 THEN [ops EXCEPT ![r].pc = "returned", ![r].err = error]
                 ELSE [ops EXCEPT ![r].pc = "exec",
                                  ![r].entity =
                                      CHOOSE row \in Where(orgID, entityID) : TRUE]
    /\ UNCHANGED <<db, goroutines>>

\* DeleteEntity: DELETE FROM entities WHERE org_id = ? AND entity_id = ?; on
\* success the goroutine of the "deleted" event is started with the entity
\* GetEntity returned.
DeleteEntityExec(r, dbErr) ==
    /\ ops[r] # NoOp
    /\ ops[r].op = "DeleteEntity"
    /\ ops[r].pc = "exec"
    /\ ServiceStep
    /\ LET rows == Where(ops[r].orgID, ops[r].entityID)
       IN IF dbErr
          THEN /\ ops' = [ops EXCEPT ![r].pc = "returned",
                              ![r].err = "failed to delete entity: " \o ErrDatabase]
               /\ goroutines' = goroutines
                      \cup SpawnedOnError(r, ops[r].entity, EventTypeDeleted)
               /\ UNCHANGED db
          ELSE IF rows = {}           \* rowsAffected == 0
          THEN /\ ops' = [ops EXCEPT ![r].pc = "returned",
                                     ![r].err = "entity not found"]
               /\ goroutines' = goroutines
                      \cup SpawnedOnError(r, ops[r].entity, EventTypeDeleted)
               /\ UNCHANGED db
          ELSE /\ db' = db \ rows
               /\ ops' = [ops EXCEPT ![r].pc = "returned", ![r].wrote = TRUE]
               /\ goroutines' = goroutines
                      \cup {Go(r, ops[r].entity, EventTypeDeleted)}

\* A plausible slip: the operation publishes before it returns, and returns
\* the error of the publish.
PublishErrorReturned(g, how) ==
    /\ ops' = [ops EXCEPT ![g.request].err =
                  IF how = "published" THEN @ ELSE "failed to publish event"]
    /\ UNCHANGED db

\* publishEntityEvent has no result and runs in its own goroutine: what it
\* finds (no JetStream context, an error of json.Marshal or of
\* PublishWithDedup) goes to the log.
PublishErrorLogged(g, how) == UNCHANGED <<db, ops>>

\* A goroutine `go s.publishEntityEvent(...)` runs: with no JetStream
\* context it logs "NATS not available, skipping event publish"; otherwise
\* it publishes, and logs the error if PublishWithDedup returned one.
EntityEventGoroutine ==
    \E g \in goroutines :
        LET Ends(how) ==
                /\ goroutines' = (goroutines \ {g}) \cup {[g EXCEPT !.pc = how]}
                /\ PublishErrorLogged(g, how)
        IN /\ g.pc = "spawned"
           /\ IF nc = "nil"
              THEN /\ Alive
                   /\ Ends("skipped")
                   /\ call' = <<>>
                   /\ out' = "log_nats_not_available"
                   /\ UNCHANGED <<brokerVars, server, nc, workerVars, ctxDone, mainpc,
                                  stopCalled, published, streamCfg, streams,
                                  consumerCfg, clock, produced, decl, restarted, http>>
              ELSE /\ publishEntityEvent(g.entity, g.eventType, g.request)
                   /\ Ends(IF out' = "ret_nil" THEN "published" ELSE "failed")

\* The state in which the entity service takes calls: table entities holds
\* the entities created before, the service was built on an EmbeddedNATS
\* that has its JetStream context or has none.
InitService ==
    \E rows \in {{Row("e1", "org1", StatusUnknown)},
                  {Row("e1", "org1", StatusUnknown), Row("e2", "org2", StatusUnknown)}},
       conn \in {"connected", "nil"} :
        /\ stream = [s \in StreamNames |-> <<>>]
        /\ lastSeq = [s \in StreamNames |-> 0]
        /\ dedup = [s \in StreamNames |-> {}]
        /\ numDelivered = [s \in StreamNames |-> [n \in Seqs |-> 0]]
        /\ ackPending = [s \in StreamNames |-> {}]
        /\ ackFloor = [s \in StreamNames |-> {}]
        /\ server = IF conn = "nil" THEN "nil" ELSE "running"
        /\ nc = conn
        /\ wpc = [w \in WorkerNames |-> "failed"]
        /\ sub = [w \in WorkerNames |-> "nil"]
        /\ msgs = [w \in WorkerNames |-> <<>>]
        /\ err = [w \in WorkerNames |-> "nil"]
        /\ handled = [w \in WorkerNames |-> {}]
        /\ ackTried = [w \in WorkerNames |-> {}]
        /\ ctxDone = FALSE
        /\ mainpc = "serving"
        /\ stopCalled = {}
        /\ published = 0
        /\ call = <<>>
        /\ out = "none"
        /\ streamCfg = [s \in StreamNames |-> Definition(s)]
        /\ streams = [s \in StreamNames |-> Definition(s)]
        /\ consumerCfg = [s \in StreamNames |-> Consumer(s)]
        /\ clock = 0
        /\ produced = {}
        /\ restarted = NoRestart
        /\ http = NoRequest
        /\ db = rows
        /\ ops = [r \in Requests |-> NoOp]
        /\ goroutines = {}
        /\ decl = NoCall

\* Concurrent calls of the entity service, their goroutines, and the
\* connection to the broker getting lost.
NextService ==
    \/ \E r \in Requests, orgID \in Orgs, dbErr \in BOOLEAN :
          \/ \E status \in {"", StatusActive} : CreateEntity(r, orgID, status, dbErr)
          \/ ListEntities(r, orgID, dbErr)
          \/ \E entityID \in {"e1", "e2"} :
                \/ GetEntity(r, orgID, entityID, dbErr)
                \/ \E op \in {"UpdateEntity", "UpdateEntityStatus"},
                      status \in {"", StatusActive} :
                        UpdateEntityExec(r, op, orgID, entityID, status, dbErr)
                \/ DeleteEntity(r, orgID, entityID)
          \/ UpdateEntityGet(r, dbErr)
          \/ DeleteEntityGet(r, dbErr)
          \/ DeleteEntityExec(r, dbErr)
    \/ EntityEventGoroutine
    \/ Disconnected

SpecService == InitService /\ [][NextService]_vars

(***************************************************************************)
(* Properties.                                                             *)
(***************************************************************************)
\* C1 (amended): a PublishWithDedup call whose key is inside the duplicate
\* window of the subject's stream returns nil and adds no message: the
\* stream and its last sequence number stay as they were; a call that stores
\* a message records its key in the window together with that message; and
\* of the messages stored since a key was recorded, at most one carries it.
C1_DuplicateAddsNoMessage ==
    /\ [][\A s \in StreamNames :
            (call' # <<>> /\ s \in StreamsOf(call'[1])) =>
                /\ InWindow(s, call'[2]) =>
                       /\ stream'[s] = stream[s]
                       /\ lastSeq'[s] = lastSeq[s]
                       /\ out' = "ret_nil"
                /\ lastSeq'[s] # lastSeq[s] =>
                       /\ [id |-> call'[2], seq |-> lastSeq'[s]] \in dedup'[s]
                       /\ stream'[s][Len(stream'[s])].msgID = call'[2]]_vars
    /\ [](\A s \in StreamNames : \A e \in dedup[s] :
            Cardinality({i \in 1..Len(stream[s]) :
                            /\ stream[s][i].msgID = e.id
                            /\ stream[s][i].seq >= e.seq}) <= 1)

\* C1, witness: the second call with a key was answered as a duplicate and
\* one stored message carries the key.
C1_SecondCallDeduplicated ==
    /\ call # <<>>
    /\ call[3] = "duplicate"
    /\ \E s \in StreamsOf(call[1]) :
           Cardinality({i \in 1..Len(stream[s]) : stream[s][i].msgID = call[2]}) = 1

\* C1 as stated: after a call whose key is inside the duplicate window,
\* exactly one stored message carries that key.
C1_ExactlyOneStored ==
    [][\A s \in StreamNames :
          (call' # <<>> /\ s \in StreamsOf(call'[1]) /\ InWindow(s, call'[2])) =>
              Cardinality({i \in 1..Len(stream'[s]) :
                              stream'[s][i].msgID = call'[2]}) = 1]_vars

C3_NoFetchAfterCancel ==
    /\ [][\A w \in WorkerNames :
            (ctxDone /\ wpc[w] = "top") => wpc'[w] \in {"top", "stopped"}]_vars
    /\ \A w \in WorkerNames : ctxDone ~> (wpc[w] \in {"stopped", "failed"})

\* C3, witness: m.ctx is cancelled and a worker that had subscribed has
\* returned from its loop.
C3_StoppedAfterCancel ==
    \E w \in WorkerNames : ctxDone /\ wpc[w] = "stopped" /\ sub[w] # "nil"

\* C3 as stated: once m.ctx is cancelled no worker calls msg.Ack().
C3_NoAckAfterCancel ==
    [][ctxDone => \A w \in WorkerNames : ~(wpc[w] = "ack" /\ wpc'[w] # "ack")]_vars

\* C4: on shutdown the steps happen strictly in this order: cancellation is
\* signalled; all worker loops have ended; each subscription is drained; the
\* shared connection is closed; the broker is stopped.  As a state
\* predicate: a subscription is drained only when m.ctx is cancelled and
\* every worker loop has ended, the connection is closed only when Stop()
\* was called on every worker, the broker is stopped only when the
\* connection is closed.
C4_ShutdownOrder ==
    /\ (\E w \in WorkerNames : sub[w] = "drained") =>
           /\ ctxDone
           /\ \A w \in WorkerNames : wpc[w] \in {"stopped", "failed"}
    /\ nc = "closed" => stopCalled = WorkerNames
    /\ server = "stopped" => nc = "closed"

\* C5 (amended): under fair scheduling every message stored in a stream
\* whose worker runs is eventually acknowledged, or delivered MaxDeliver
\* times, or discarded by the stream's limits before that.  A sequence number
\* once assigned stays assigned: "stored leads to settled" is "again and
\* again, settled if stored".
C5_StoredEventuallySettled ==
    \A s \in StreamNames, n \in Seqs :
        []<>(n <= lastSeq[s] =>
                \/ n \in ackFloor[s]
                \/ numDelivered[s][n] = MaxDeliver
                \/ n \notin SeqsOf(stream[s])
                \/ \A w \in WorkerNames : WorkerStream(w) = s => wpc[w] = "failed")

\* C5, witness: a message was delivered, acknowledged, and a later message
\* of the same stream has been delivered MaxDeliver times without one.
C5_AcknowledgedAndExhausted ==
    \E s \in StreamNames, n, k \in Seqs :
        /\ n \in ackFloor[s]
        /\ k <= lastSeq[s] /\ k \notin ackFloor[s]
        /\ numDelivered[s][k] = MaxDeliver

\* C5 as stated: every stored message ends up acknowledged or delivered
\* MaxDeliver times; so, while the stream's worker is in its loop, no message
\* leaves the stream short of both.
C5_NoneLostUnsettled ==
    [][\A s \in StreamNames, n \in Seqs :
          ( /\ \E w \in WorkerNames :
                  /\ WorkerStream(w) = s
                  /\ wpc[w] \in {"top", "fetching", "fetched", "handler", "ack"}
            /\ n \in SeqsOf(stream[s])
            /\ n \notin SeqsOf(stream'[s]) ) =>
              \/ n \in ackFloor'[s]
              \/ numDelivered'[s][n] = MaxDeliver]_vars

\* C6: no message is delivered to a durable consumer more than 3 times:
\* its delivery count never exceeds 3, so after a third delivery that stays
\* unacknowledged it is not delivered again.
C6_AtMostThreeDeliveries ==
    \A s \in StreamNames, n \in Seqs : numDelivered[s][n] <= 3

\* C6, witness: a stored message was delivered 3 times, is not acknowledged,
\* its AckWait has run out, and the worker is fetching: it is not delivered.
C6_PoisonLeftUndelivered ==
    \E w \in WorkerNames : \E n \in SeqsOf(stream[WorkerStream(w)]) :
        /\ numDelivered[WorkerStream(w)][n] = 3
        /\ n \notin ackFloor[WorkerStream(w)]
        /\ n \notin ackPending[WorkerStream(w)]
        /\ wpc[w] = "fetching"

\* C7: when Fetch returns nats.ErrTimeout it returns no message; the worker
\* logs no error, runs no handler and sends no acknowledgment: it goes back
\* to the select, from where it fetches again unless m.ctx is cancelled (then
\* it returns); and, its steps being scheduled, it does fetch again or
\* m.ctx is cancelled.
C7_TimeoutIsNotAnError ==
    /\ [](\A w \in WorkerNames : err[w] = "ErrTimeout" => msgs[w] = <<>>)
    /\ [][\A w \in WorkerNames :
            (wpc[w] = "fetched" /\ err[w] = "ErrTimeout" /\ wpc'[w] # "fetched") =>
                /\ wpc'[w] = "top"
                /\ out' # "log_error_fetching"
                /\ handled'[w] = {} /\ ackTried'[w] = {}
                /\ ackFloor' = ackFloor /\ stream' = stream]_vars
    /\ [][\A w \in WorkerNames :
            (wpc[w] = "top" /\ err[w] = "ErrTimeout" /\ wpc'[w] # "top") =>
                wpc'[w] = IF ctxDone THEN "stopped" ELSE "fetching"]_vars
    /\ \A w \in WorkerNames :
            (wpc[w] = "fetched" /\ err[w] = "ErrTimeout") ~> (wpc[w] = "fetching" \/ ctxDone)

\* C7, witness: a Fetch timed out and the worker is back at the select, not
\* cancelled, having logged nothing.
C7_BackAtSelectAfterTimeout ==
    \E w \in WorkerNames :
        wpc[w] = "top" /\ err[w] = "ErrTimeout" /\ out = "none" /\ ~ctxDone

\* C8: when Fetch returns an error other than nats.ErrTimeout the worker
\* does not leave its loop: it logs the error, handles and acknowledges
\* nothing, and goes back to the select, from where it fetches again unless
\* m.ctx is cancelled.  The loop, once entered, ends only by cancellation.
C8_FetchErrorContinues ==
    /\ [](\A w \in WorkerNames :
            /\ err[w] = "ErrOther" => msgs[w] = <<>>
            /\ wpc[w] = "failed" => sub[w] = "nil"
            /\ wpc[w] = "stopped" => ctxDone)
    /\ [][\A w \in WorkerNames :
            (wpc[w] = "fetched" /\ err[w] = "ErrOther" /\ wpc'[w] # "fetched") =>
                /\ wpc'[w] = "top"
                /\ out' = "log_error_fetching"
                /\ handled'[w] = {} /\ ackTried'[w] = {}
                /\ ackFloor' = ackFloor /\ stream' = stream]_vars
    /\ [][\A w \in WorkerNames :
            (wpc[w] = "top" /\ err[w] = "ErrOther" /\ wpc'[w] # "top") =>
                wpc'[w] = IF ctxDone THEN "stopped" ELSE "fetching"]_vars
    /\ \A w \in WorkerNames :
            (wpc[w] = "fetched" /\ err[w] = "ErrOther") ~> (wpc[w] = "fetching" \/ ctxDone)

\* C8, witness: a Fetch failed, the error is logged and the worker is back
\* at the select.
C8_BackAtSelectAfterError ==
    \E w \in WorkerNames :
        wpc[w] = "top" /\ err[w] = "ErrOther" /\ out = "log_error_fetching"

\* C9: the worker calls msg.Ack() on every message its handler returned
\* from, whether or not the payload decoded: the step that follows
\* handler(msg) is msg.Ack() of that same message.
C9_AckWhateverThePayload ==
    [][\A w \in WorkerNames :
          (wpc[w] = "handler" /\ (wpc'[w] # "handler" \/ handled'[w] # handled[w])) =>
              /\ wpc'[w] = "ack"
              /\ msgs'[w] = msgs[w]
              /\ msgs'[w][Cardinality(handled'[w])] = Current(w)]_vars

\* C9, witness: a stored message whose payload does not decode has been
\* acknowledged.
C9_GarbageAcknowledged ==
    \E i \in 1..Len(stream[StreamEntities]) :
        /\ ~JsonUnmarshalOk(stream[StreamEntities][i].data)
        /\ stream[StreamEntities][i].seq \in ackFloor[StreamEntities]

\* C10 (amended): when the commands stream holds MaxMsgs messages, a
\* PublishWithDedup call on a commands subject whose key is not inside the
\* stream's duplicate window returns an error, stores nothing and leaves
\* every stored message in place.
C10_FullCommandsRejectsNew ==
    [][( /\ call' # <<>>
         /\ StreamCommands \in StreamsOf(call'[1])
         /\ Len(stream[StreamCommands]) = MaxMsgs(StreamCommands)
         /\ ~InWindow(StreamCommands, call'[2]) ) =>
             /\ out' = "ret_error"
             /\ call'[3] = "none"
             /\ stream' = stream
             /\ lastSeq' = lastSeq]_vars

\* C10, witness: a publish on a commands subject was rejected with the
\* stream full.
C10_RejectedWhenFull ==
    /\ call # <<>>
    /\ StreamCommands \in StreamsOf(call[1])
    /\ out = "ret_error"
    /\ Len(stream[StreamCommands]) = MaxMsgs(StreamCommands)

\* C10 as stated: when the commands stream holds MaxMsgs messages, every
\* further publish on a commands subject returns an error.
C10_FullCommandsRejectsAll ==
    [][( /\ call' # <<>>
         /\ StreamCommands \in StreamsOf(call'[1])
         /\ Len(stream[StreamCommands]) = MaxMsgs(StreamCommands) ) =>
             /\ out' = "ret_error"
             /\ stream' = stream]_vars

(***************************************************************************)
(* The entity service's subjects and deduplication keys.                   *)
(***************************************************************************)
\* C11: every entity event is published on the subject of its kind,
\* constellation.entities.<org>.created, .updated, .deleted or .status, and
\* the envelope's subject field equals the subject it was published on.
C11_SubjectNamesEventKind ==
    \A p \in produced :
        /\ p.subject = DocumentedEntitySubject(p.entity.OrgID, p.event.Type)
        /\ p.event.Subject = p.subject

\* C16: the deduplication key identifies the logical event one-to-one: the
\* publications of one request carry one key, and those of different
\* requests different keys.
C16_KeyIdentifiesEvent ==
    \A p, q \in produced : (p.request = q.request) <=> (p.key = q.key)

(***************************************************************************)
(* Declarations.                                                           *)
(***************************************************************************)
\* C12: AddStream is idempotent: a call with the definition the broker
\* already has for the stream (the second of two calls in a row with one
\* definition) succeeds and changes no configuration.
C12_AddStreamIdempotent ==
    [][\A s \in StreamNames :
          ( /\ decl'.op = "AddStream"
            /\ decl'.arg.Name = s
            /\ decl.op = "AddStream"
            /\ decl.arg = decl'.arg
            /\ out \in DeclaredOk ) =>
          ( /\ out' = "log_updated_stream"
            /\ streamCfg' = streamCfg
            /\ consumerCfg' = consumerCfg )]_<<vars>>

\* C12 happens: AddStream was called on a stream that already had the
\* definition of the call, and returned nil.
C12_DeclaredAgain ==
    /\ decl.op = "AddStream"
    /\ decl.info = decl.arg
    /\ out = "log_updated_stream"

\* C13: after AddStream(def) returned nil the broker's configuration of
\* def.Name is def, whether the stream was created or updated in place.
C13_DeclaredIsConfigured ==
    (decl.op = "AddStream" /\ out \in DeclaredOk) =>
        streamCfg[decl.arg.Name] = decl.arg

\* C13 happens: a stream that had another configuration was updated in
\* place.
C13_UpdatedInPlace ==
    /\ decl.op = "AddStream"
    /\ decl.info \notin {NotFound, decl.arg}
    /\ out = "log_updated_stream"
    /\ streamCfg[decl.arg.Name] = decl.arg

\* C14: when the durable consumer exists, CreateDurableConsumer returns nil
\* and changes nothing: not the consumer's configuration, even if the call
\* names another filter subject, and not its delivery and acknowledgment
\* state.
C14_ExistingConsumerUntouched ==
    [][\A s \in StreamNames :
          ( /\ decl'.op = "CreateDurableConsumer"
            /\ decl'.arg[1] = s
            /\ out' \in {"log_consumer_exists", "log_created_consumer",
                         "err_create_consumer"}
            /\ nc = "connected"
            /\ consumerCfg[s] # NotFound ) =>
          ( /\ out' = "log_consumer_exists"
            /\ consumerCfg' = consumerCfg
            /\ UNCHANGED <<stream, numDelivered, ackPending, ackFloor>> )]_<<vars>>

\* C14 happens: CreateDurableConsumer was called with another filter
\* subject on a consumer that has a delivery outstanding.
C14_DeclaredWhilePending ==
    /\ decl.op = "CreateDurableConsumer"
    /\ out = "log_consumer_exists"
    /\ decl.arg[3] # decl.info.FilterSubject
    /\ consumerCfg[decl.arg[1]] = decl.info
    /\ ackPending[decl.arg[1]] # {}

C17_OnlyShutdownClosesConnection ==
    [][nc' # nc =>
          /\ nc' = "closed"
          /\ mainpc = "close" /\ mainpc' = "nats_close"
          /\ call' = <<>>
          /\ wpc' = wpc
          /\ \A w \in WorkerNames : wpc[w] \in {"stopped", "failed"}]_<<vars>>

\* C17 happens: the connection is closed after a worker that had subscribed
\* and handled a message returned from its loop.
C17_ClosedAfterLoops ==
    /\ nc = "closed"
    /\ \E w \in WorkerNames :
          wpc[w] = "stopped" /\ sub[w] # "nil" /\ ackFloor[WorkerStream(w)] # {}

\* C19: when Manager.Stop has returned, every subscription a worker opened
\* has been drained, whatever the interleaving of the workers' start-up with
\* Stop.
C19_StopDrainsEverySubscription ==
    mainpc \in {"nats_close", "server_shutdown", "exited"} =>
        \A w \in WorkerNames : sub[w] # "open"

(***************************************************************************)
(* The start of the process.                                               *)
(***************************************************************************)
\* C18: workers run and HTTP is served only after the broker became ready,
\* the client connected, and all four stream declarations and all four
\* consumer declarations succeeded; a failure of any of these ends the
\* process (log.Fatal) without a worker started and without serving.
C18_ServesOnlyAfterDeclarations ==
    [][ /\ ( \/ out' \in {"err_new_server", "err_not_ready", "err_connect"}
             \/ out' \in {"err_update_stream", "err_add_stream",
                          "err_create_consumer"} ) =>
                mainpc' = "fatal"
        /\ ( \/ \E w \in WorkerNames : wpc'[w] # "unstarted"
             \/ mainpc' = "serving" ) =>
                /\ server' = "running"
                /\ nc' = "connected"
                /\ \A s \in StreamNames :
                      /\ streams'[s] = Definition(s)
                      /\ streamCfg'[s] = Definition(s)
                      /\ consumerCfg'[s] # NotFound
        /\ mainpc' = "fatal" =>
                \A w \in WorkerNames : wpc'[w] = "unstarted" ]_<<vars>>

\* C18 happens: the process serves, the four workers started, the four
\* streams as CreateConstellationStreams declares them.
C18_ServingAfterBoot ==
    /\ mainpc = "serving"
    /\ \A w \in WorkerNames : wpc[w] = "spawned"
    /\ \A s \in StreamNames : streamCfg[s] = Definition(s)

(***************************************************************************)
(* Streams and subjects.                                                   *)
(***************************************************************************)
\* C21: the four streams' subject filters are pairwise disjoint and each
\* domain has exactly one stream: a concrete subject matches at most one
\* stream, a stored message is in the one stream that captures its subject,
\* and a worker is handed only messages of the stream it is bound to.
C21_OneStreamPerSubject ==
    /\ FiltersDisjoint
    /\ \A s \in StreamNames : \A i \in 1..Len(stream[s]) :
          Capturing(stream[s][i].subject) = {s}
    /\ \A w \in WorkerNames : \A i \in 1..Len(msgs[w]) :
          Capturing(msgs[w][i].subject) = {WorkerStream(w)}

\* C21 happens: a worker holds a fetched message while its stream stores
\* one.
C21_FetchedFromOwnStream ==
    \E w \in WorkerNames :
        /\ msgs[w] # <<>>
        /\ stream[WorkerStream(w)] # <<>>
        /\ published = MaxPublishes

(***************************************************************************)
(* The life of a worker.                                                   *)
(***************************************************************************)
\* C22 (amended): a worker moves only forward through Created, Running,
\* Stopped.  It enters Running only with its subscription made; it leaves
\* Running only at the select, with m.ctx cancelled; a worker whose
\* subscription fails goes from Created to Stopped without running; once
\* Stopped it fetches, handles and acknowledges nothing.
C22_LifecycleForward ==
    [][\A w \in WorkerNames :
          /\ Lifecycle(wpc[w]) = "Created" =>
                \/ wpc'[w] = wpc[w]
                \/ wpc'[w] = "top" /\ sub'[w] = "open"
                \/ wpc'[w] = "failed" /\ sub'[w] = "nil"
          /\ Lifecycle(wpc[w]) = "Running" =>
                \/ Lifecycle(wpc'[w]) = "Running"
                \/ wpc[w] = "top" /\ ctxDone /\ wpc'[w] = "stopped"
          /\ Lifecycle(wpc[w]) = "Stopped" =>
                /\ wpc'[w] = wpc[w]
                /\ msgs'[w] = msgs[w] /\ handled'[w] = handled[w]
                /\ ackTried'[w] = ackTried[w]
                /\ (\A v \in WorkerNames : Lifecycle(wpc[v]) = "Stopped") =>
                       UNCHANGED <<numDelivered, ackFloor>>]_<<vars>>

\* C22 happens: a worker ran, acknowledged a message, was drained and has
\* returned from its loop.
C22_RanAndStopped ==
    \E w \in WorkerNames :
        /\ wpc[w] = "stopped"
        /\ sub[w] = "drained"
        /\ ackFloor[WorkerStream(w)] # {}

\* C22 as stated: a worker moves only along Created -> Running ->
\* (Stopping) -> Stopped: it is Stopped only after it was Running.
C22_StoppedOnlyAfterRunning ==
    [][\A w \in WorkerNames :
          (Lifecycle(wpc'[w]) = "Stopped" /\ wpc'[w] # wpc[w]) =>
              Lifecycle(wpc[w]) = "Running"]_<<vars>>

\* C23: workers fail independently.  The step in which a worker's Start
\* returns an error changes nothing of another worker, of m.ctx, of the
\* connection or of main; Manager.Start returns nil whatever becomes of the
\* workers; and a worker at its select starts its next fetch whichever
\* other workers have failed.
C23_WorkersFailIndependently ==
    [][ /\ \A w \in WorkerNames :
              (wpc'[w] = "failed" /\ wpc[w] # "failed") =>
                  /\ \A v \in WorkerNames \ {w} :
                        /\ wpc'[v] = wpc[v] /\ sub'[v] = sub[v]
                        /\ msgs'[v] = msgs[v] /\ err'[v] = err[v]
                  /\ ctxDone' = ctxDone /\ nc' = nc /\ server' = server
                  /\ mainpc' = mainpc
        /\ mainpc = "manager_start" => mainpc' \in {"manager_start", "start_http"}
        /\ mainpc' \notin {"fatal", "crashed", "exited"}
        /\ \A v \in WorkerNames : wpc[v] = "top" => ENABLED LoopFetch(v)
      ]_<<vars>>

\* C23 happens: main serves, three workers have failed at their start, and
\* the fourth has fetched and acknowledged a message of its stream.
C23_OneWorkerLeft ==
    /\ mainpc = "serving"
    /\ \E v \in WorkerNames :
          /\ \A w \in WorkerNames \ {v} : wpc[w] = "failed"
          /\ Lifecycle(wpc[v]) = "Running"
          /\ ackFloor[WorkerStream(v)] # {}

(***************************************************************************)
(* Restarts.                                                               *)
(***************************************************************************)
\* C24: across a restart of the process the durable consumer is reused by
\* name and keeps its state.  A message acknowledged before the restart
\* stays acknowledged and is never delivered again; a message left
\* unacknowledged before the restart keeps its delivery count, and is
\* delivered again only while that count is below MaxDeliver.
C24_ConsumerStateSurvivesRestart ==
    restarted.happened =>
        \A s \in StreamNames :
            /\ consumerCfg[s] = Consumer(s)
            /\ \A n \in restarted.acked[s] :
                  /\ n \in ackFloor[s]
                  /\ numDelivered[s][n] = restarted.delivered[s][n]
                  /\ \A w \in WorkerNames : n \notin SeqsOf(msgs[w])
            /\ \A n \in restarted.unacked[s] :
                  /\ numDelivered[s][n] >= restarted.delivered[s][n]
                  /\ numDelivered[s][n] <= MaxDeliver

\* C24 happens: after a restart the worker holds a message again that it
\* had been handed and had not acknowledged before the restart, and a
\* message acknowledged before the restart is still stored.
C24_RedeliveredAfterRestart ==
    /\ restarted.happened
    /\ \E n \in restarted.unacked[StreamEntities] :
          /\ n \in SeqsOf(msgs["EntityWorker"])
          /\ numDelivered[StreamEntities][n] = restarted.delivered[StreamEntities][n] + 1
    /\ \E n \in restarted.acked[StreamEntities] : n \in SeqsOf(stream[StreamEntities])

(***************************************************************************)
(* Health.                                                                 *)
(***************************************************************************)
\* C25: HealthCheck returns an error exactly when the client connection is
\* not initialised or not connected, or the broker is not running: it
\* returns nil exactly when the connection is connected and the broker
\* runs, "not initialized" / "not connected" exactly when the connection is
\* nil / not connected, whatever the broker, and "server not running" when
\* the connection is up and the broker is not.  GET /health reports nats as
\* healthy, and answers 200, only in the first case.
C25_HealthCheckErrorIffNotLive ==
    LET live == nc = "connected" /\ server = "running" IN
    /\ out = Returned("nil") <=> (out \in {Returned(e) : e \in HealthCheckErrors \cup {"nil"}} /\ live)
    /\ out = Returned("NATS connection not initialized") => nc = "nil"
    /\ out = Returned("NATS not connected") => nc \in {"disconnected", "closed"}
    /\ out = Returned("NATS server not running") => nc = "connected" /\ server # "running"
    /\ \A dbPing \in {"nil", "database is closed"} :
          /\ out = HealthResponse(dbPing, "nil") => live
          /\ \A e \in HealthCheckErrors : out = HealthResponse(dbPing, e) => ~live

\* C25 happens: main serves, the client is connected, the broker has
\* stopped, and GET /health answered 503 with "NATS server not running".
C25_ProcessDownAlone ==
    /\ mainpc = "serving"
    /\ nc = "connected"
    /\ server = "stopped"
    /\ out = HealthResponse("nil", "NATS server not running")

C27_AckErrorOnlyLogged ==
    [][\A w \in WorkerNames :
          (wpc[w] = "ack" /\ out' = "log_error_acknowledging") =>
              /\ <<stream, lastSeq, dedup, numDelivered, ackPending, ackFloor>>' =
                    <<stream, lastSeq, dedup, numDelivered, ackPending, ackFloor>>
              /\ IF Cardinality(handled[w]) < Len(msgs[w])
                 THEN /\ wpc'[w] = "handler"
                      /\ msgs'[w] = msgs[w]
                      /\ handled'[w] = handled[w]
                      /\ ackTried'[w] = ackTried[w] \cup {Acking(w).seq}
                 ELSE /\ wpc'[w] = "top"
                      /\ msgs'[w] = <<>>
              /\ <<sub, ctxDone, mainpc, nc, server>>' = <<sub, ctxDone, mainpc, nc, server>>
      ]_vars

\* C27 happens: the acknowledgment of the first message of a batch failed,
\* and the handler of the second has returned: the worker is at its
\* msg.Ack().
C27_NextHandledAfterAckError ==
    \E w \in WorkerNames :
        /\ wpc[w] = "ack"
        /\ Cardinality(handled[w]) = 2
        /\ msgs[w][1].seq \in ackTried[w] \ ackFloor[WorkerStream(w)]

\* C28: a worker processes its batch one message at a time in fetch order.
\* The messages whose handler has returned are the first ones of the batch;
\* msg.Ack() has been called on all of them except, while the worker is at
\* msg.Ack(), the last; a handler starts only when every message before it
\* had its acknowledgment attempt; and while the worker is at the select or
\* in Fetch it holds no message: the batch it holds is one Fetch's, of at
\* most FetchBatch messages.
C28_OneMessageAtATime ==
    \A w \in WorkerNames :
        LET done == {msgs[w][i].seq : i \in 1..Cardinality(handled[w])} IN
        /\ Len(msgs[w]) <= FetchBatch
        /\ Cardinality(handled[w]) <= Len(msgs[w])
        /\ handled[w] = done
        /\ wpc[w] = "handler" =>
              /\ ackTried[w] = handled[w]
              /\ Cardinality(handled[w]) < Len(msgs[w])
        /\ wpc[w] = "ack" =>
              /\ handled[w] # {}
              /\ ackTried[w] = handled[w] \ {Acking(w).seq}
              /\ Acking(w).seq \notin ackTried[w]
        /\ wpc[w] \in {"spawned", "top", "fetching"} =>
              msgs[w] = <<>> /\ handled[w] = {} /\ ackTried[w] = {}
        /\ wpc[w] = "fetched" => handled[w] = {} /\ ackTried[w] = {}

\* C28 happens: of a batch of two the first message is acknowledged and
\* the handler of the second has returned.
C28_SecondAfterFirstAcked ==
    \E w \in WorkerNames :
        /\ wpc[w] = "ack"
        /\ Len(msgs[w]) = 2
        /\ msgs[w][1].seq < msgs[w][2].seq
        /\ handled[w] = SeqsOf(msgs[w])
        /\ msgs[w][1].seq \in ackFloor[WorkerStream(w)]

(***************************************************************************)
(* Acknowledged messages.                                                  *)
(***************************************************************************)
\* C29: a message whose acknowledgment the broker recorded is never
\* delivered to its worker again: it stays acknowledged, its delivery count
\* does not grow and no later Fetch returns it.  A delivery, and so a
\* redelivery, is of a message that is not acknowledged and whose AckWait
\* is not running.
C29_AcknowledgedNeverRedelivered ==
    [][\A w \in WorkerNames, n \in Seqs :
          LET s == WorkerStream(w) IN
          /\ n \in ackFloor[s] =>
                /\ n \in ackFloor'[s]
                /\ numDelivered'[s][n] = numDelivered[s][n]
                /\ n \in SeqsOf(msgs'[w]) => n \in SeqsOf(msgs[w])
          /\ numDelivered'[s][n] > numDelivered[s][n] =>
                /\ n \notin ackFloor[s]
                /\ n \notin ackPending[s]
                /\ n \in SeqsOf(msgs'[w])
      ]_vars

\* C29 happens: a worker holds, delivered for the second time, a message it
\* left unacknowledged, while a message it acknowledged after one delivery
\* is still stored in its stream.
C29_OnlyUnacknowledgedRedelivered ==
    \E w \in WorkerNames :
        LET s == WorkerStream(w) IN
        /\ \E n \in SeqsOf(stream[s]) \cap ackFloor[s] : numDelivered[s][n] = 1
        /\ \E m \in SeqsOf(msgs[w]) \ ackFloor[s] : numDelivered[s][m] = 2

C31_EventOnlyAfterWrite ==
    /\ \A g \in goroutines :
          /\ ops[g.request] # NoOp
          /\ ops[g.request].wrote
          /\ ops[g.request].err = "nil"
    /\ \A p \in produced : \E g \in goroutines :
          /\ g.request = p.request
          /\ g.entity = p.entity
          /\ g.eventType = p.event.Type
    /\ \A r \in Requests :
          ( /\ ops[r] # NoOp
            /\ ops[r].op \in {"CreateEntity", "UpdateEntity", "DeleteEntity"}
            /\ ops[r].pc = "returned"
            /\ ops[r].err # "nil" ) =>
                \A g \in goroutines : g.request # r

\* C31 happens: a DeleteEntity found the entity and returned "entity not
\* found" from its DELETE; every goroutine is that of the DeleteEntity that
\* deleted the row, and its event was published.
C31_FailedWritesNoEvent ==
    \E r, q \in Requests :
        /\ ops[r] # NoOp /\ ops[q] # NoOp
        /\ ops[r].op = "DeleteEntity"
        /\ ops[r].entity # NoEntity
        /\ ops[r].err = "entity not found"
        /\ ops[q].op = "DeleteEntity"
        /\ ops[q].err = "nil" /\ ops[q].pc = "returned"
        /\ \A g \in goroutines : g.request = q
        /\ \E g \in goroutines : g.pc = "published"

\* C32: the result of an entity operation does not depend on its publish:
\* the goroutine of publishEntityEvent runs when its operation has returned
\* nil, and its step, whether it publishes, fails to or skips the publish,
\* changes neither what any operation returned nor table entities; what a
\* call has returned stays what it is.
C32_ResultIndependentOfPublish ==
    [][/\ \A g \in goroutines :
             (g.pc = "spawned" /\ g \notin goroutines') =>
                 /\ ops[g.request].pc = "returned"
                 /\ ops[g.request].err = "nil"
                 /\ ops' = ops
                 /\ db' = db
                 /\ out' \in {"ret_nil", "ret_error", "log_nats_not_available"}
       /\ \A r \in Requests :
             (ops[r] # NoOp /\ ops[r].pc = "returned") => ops'[r] = ops[r]
      ]_vars

\* C32 happens: the publish of a CreateEntity's event failed; the call has
\* returned the entity without error and the row is in the table.
C32_FailedPublishEntityKept ==
    \E g \in goroutines :
        /\ g.pc = "failed"
        /\ ops[g.request].op = "CreateEntity"
        /\ ops[g.request].err = "nil"
        /\ ops[g.request].returned = {g.entity}
        /\ g.entity \in db

\* C33: entity operations are scoped to the given organization: a step of a
\* call for organization X adds, changes and removes only rows whose org_id
\* is X; the entities a call returns, the row its GetEntity scanned and the
\* entity of every goroutine it starts have the org_id the call was given.
C33_ScopedToOrganization ==
    [][/\ \A row \in (db \ db') \cup (db' \ db) :
             \E r \in Requests :
                 /\ ops'[r] # ops[r]
                 /\ row.OrgID = ops'[r].orgID
       /\ \A r \in Requests : ops'[r] # NoOp =>
             /\ \A entity \in ops'[r].returned : entity.OrgID = ops'[r].orgID
             /\ ops'[r].entity # NoEntity => ops'[r].entity.OrgID = ops'[r].orgID
       /\ \A g \in goroutines' : g.entity.OrgID = ops'[g.request].orgID
      ]_vars

\* C33 happens: an UpdateEntity for org2 named an entity of org1 and
\* returned "entity not found", the row is as it was; a ListEntities for
\* org2 returned the entity of org2 only.
C33_OtherOrganizationUntouched ==
    \E r, q \in Requests :
        /\ ops[r] # NoOp /\ ops[q] # NoOp
        /\ ops[r].op = "UpdateEntity"
        /\ ops[r].orgID = "org2" /\ ops[r].entityID = "e1"
        /\ ops[r].err = "entity not found"
        /\ Row("e1", "org1", StatusUnknown) \in db
        /\ ops[q].op = "ListEntities" /\ ops[q].orgID = "org2"
        /\ ops[q].returned = {Row("e2", "org2", StatusUnknown)}

\* C36: a call of CreateEntity, UpdateEntity or DeleteEntity that returned
\* nil has started exactly one goroutine of publishEntityEvent, of type
\* created, updated or deleted; a call of UpdateEntityStatus that returned
\* nil exactly two, one updated and one status_changed; every other call
\* none.  A goroutine calls PublishWithDedup at most once.
C36_PublishesPerOperation ==
    \A r \in Requests : ops[r] # NoOp =>
        LET started == {g \in goroutines : g.request = r}
            kinds == {g.eventType : g \in started}
            succeeded == ops[r].pc = "returned" /\ ops[r].err = "nil"
        IN /\ Cardinality(started) = Cardinality(kinds)
           /\ kinds =
                IF ~succeeded THEN {}
                ELSE CASE ops[r].op = "CreateEntity" -> {"created"}
                       [] ops[r].op = "UpdateEntity" -> {"updated"}
                       [] ops[r].op = "DeleteEntity" -> {"deleted"}
                       [] ops[r].op = "UpdateEntityStatus" ->
                              {"updated", "status_changed"}
                       [] OTHER -> {}
           /\ \A g \in started :
                Cardinality({p \in produced : /\ p.request = r
                                              /\ p.event.Type = g.eventType})
                    = IF g.pc \in {"published", "failed"} THEN 1 ELSE 0

\* C36 happens: an UpdateEntityStatus returned nil and both its events, the
\* updated one and the status_changed one, were published.
C36_StatusChangePublishedTwo ==
    \E r \in Requests :
        /\ ops[r] # NoOp
        /\ ops[r].op = "UpdateEntityStatus"
        /\ ops[r].err = "nil"
        /\ {p.event.Type : p \in {x \in produced : x.request = r}}
               = {"updated", "status_changed"}
        /\ \A g \in goroutines : g.request = r /\ g.pc = "published"
        /\ Len(stream[StreamEntities]) = 2

\* C37: when two DeleteEntity calls for the same entity run concurrently
\* and no statement fails in the driver, exactly one of them returns nil and
\* has started the one goroutine of the "deleted" event; the other returns
\* "entity not found" and has started none.  The entity is the one of org1
\* that the table holds from the start.
C37_ConcurrentDeletesOneNotFound ==
    \A r, q \in Requests :
        ( /\ r # q
          /\ ops[r] # NoOp /\ ops[q] # NoOp
          /\ ops[r].op = "DeleteEntity" /\ ops[q].op = "DeleteEntity"
          /\ ops[r].orgID = "org1" /\ ops[r].entityID = "e1"
          /\ ops[q].orgID = "org1" /\ ops[q].entityID = "e1"
          /\ r \in ops[q].concurrent
          /\ ops[r].pc = "returned" /\ ops[q].pc = "returned"
          /\ \A x \in {r, q} :
                ops[x].err \notin {"failed to scan entity: " \o ErrDatabase,
                                   "failed to delete entity: " \o ErrDatabase} ) =>
            \E won \in {r, q} :
                LET lost == CHOOSE x \in {r, q} : x # won
                IN /\ ops[won].err = "nil"
                   /\ ops[lost].err = "entity not found"
                   /\ {g.eventType : g \in {x \in goroutines : x.request = won}}
                          = {"deleted"}
                   /\ Cardinality({g \in goroutines : g.request = won}) = 1
                   /\ {g \in goroutines : g.request = lost} = {}

\* C34: after cancellation a worker starts no new fetch.  With m.ctx
\* cancelled no worker enters sub.Fetch; a Fetch returns only to the worker
\* that was inside it; a worker at the select stays there or returns, and a
\* worker that has returned stays returned.  So after cancellation a worker
\* completes at most the one fetch it was in, and the batch of that fetch.
C34_CancellationWinsOverFetch ==
    [][ctxDone =>
          \A w \in WorkerNames :
              /\ wpc'[w] = "fetching" => wpc[w] = "fetching"
              /\ wpc'[w] = "fetched" => wpc[w] \in {"fetching", "fetched"}
              /\ wpc[w] = "top" => wpc'[w] \in {"top", "stopped"}
              /\ wpc[w] \in {"stopped", "failed"} => wpc'[w] = wpc[w]
              /\ msgs'[w] # msgs[w] => wpc[w] = "fetching" \/ msgs'[w] = <<>>
      ]_vars

\* C34 happens: m.ctx is cancelled, the worker's subscription is drained,
\* and the Fetch the worker was in has returned a batch of which no message
\* is handled yet.
C34_BatchOfFetchInFlight ==
    \E w \in WorkerNames :
        /\ ctxDone
        /\ sub[w] = "drained"
        /\ wpc[w] = "fetched"
        /\ msgs[w] # <<>>
        /\ handled[w] = {}

\* C35: Manager.Stop always terminates.  Once it has signalled cancellation
\* it returns, and it returns only when the goroutine of every worker has
\* ended, whether the worker failed to subscribe or left its loop.
C35_StopTerminates ==
    /\ ctxDone ~> (mainpc \in {"nats_close", "server_shutdown", "exited"})
    /\ [](mainpc \in {"close", "nats_close", "server_shutdown", "exited"} =>
             \A w \in WorkerNames : wpc[w] \in {"stopped", "failed"})

\* C35 happens: Manager.Stop has returned; of the workers one left its loop
\* after a Fetch on its drained subscription returned an error, the others
\* had failed to subscribe.
C35_ReturnedAfterDrainedFetchError ==
    /\ mainpc = "nats_close"
    /\ \E w \in WorkerNames :
          /\ wpc[w] = "stopped"
          /\ sub[w] = "drained"
          /\ err[w] = "ErrOther"
          /\ \A v \in WorkerNames \ {w} : wpc[v] = "failed"

====
